---- MODULE Spec2Model ----
(***************************************************************************)
(* Model of services/consolidacao_final.py: ConsolidacaoFinal, the          *)
(* quality-gated consolidation of a session's stored steps into a report.   *)
(*                                                                          *)
(* Python values are modelled by their type and by what the code probes:    *)
(* a value is a record [k, i, n] where k is the Python type, n is the       *)
(* length (list, str) or the number (num), and for a dict i and n describe  *)
(* the value stored under the one key the consumer of that slot looks up    *)
(* ('drivers_customizados', 'unique_sources', ...), "absent" when the key   *)
(* is missing.                                                              *)
(***************************************************************************)
EXTENDS Integers, Sequences, FiniteSets, TLC

VARIABLES
    pc,               \* position inside the modelled call
    store,            \* auto_save_manager: the stored steps of the session
    ordem,            \* iteration order of etapas_salvas.keys()
    dados_pipeline,   \* argument of consolidar_analise_completa
    force_minimal,    \* argument of consolidar_analise_completa
    session_id,       \* argument session_id of the modelled call
    arquivos,         \* number of intermediate files naming the session
    dados_coletados,  \* local of consolidar_analise_completa
    validacao,        \* local validacao_qualidade
    relatorio_final,  \* local relatorio_final
    resultado,        \* the returned value
    erro,             \* text of the exception being handled ("" when none)
    salvos,           \* names passed to salvar_etapa, in call order
    erros,            \* names passed to salvar_erro, in call order
    escritos,         \* files written by _salvar_formato
    disco,            \* the files under relatorios_intermediarios/: as they
                      \* were when the call began (inicial) and now (atual)
    relogio,          \* the second datetime.now() reads
    laco,             \* the loops of _gerar_multiplos_formatos in progress, by
                      \* session id: k formats done, falhas not written
    faults,           \* number of collaborator failures injected so far
    extracao,         \* PlaywrightSocialExtractor.massive_social_extraction:
                      \* its argument, locals and returned summary
    geracao           \* ComprehensiveReportGeneratorV3
                      \* .generate_comprehensive_report: its locals, the
                      \* saved HTML file and the returned value

vars == << pc, store, ordem, dados_pipeline, force_minimal, session_id, arquivos,
           dados_coletados, validacao, relatorio_final, resultado, erro,
           salvos, erros, escritos, disco, relogio, laco, faults,
           extracao, geracao >>

\* massive_social_extraction is not running
SemExtracao == << >>

\* generate_comprehensive_report is not running
SemGeracao == << >>

----------------------------------------------------------------------------
(* Bounds of the model.                                                     *)

\* counts of a signal range over 0 .. its minimum + MaxAlem
MaxAlem == 1
\* collaborator calls that may fail during one call
MaxFaults == 1
\* stored steps of the session besides the four quality signals
MaxExtras == 1
\* intermediate files of the session on disk before the call
MaxArquivos == 1

----------------------------------------------------------------------------
(* Python values.                                                           *)

VNone == [k |-> "none", i |-> "na", n |-> 0]

VNum(x) == [k |-> "num", i |-> "na", n |-> x]

VStr(x) == [k |-> "str", i |-> "na", n |-> x]

VList(x) == [k |-> "list", i |-> "na", n |-> x]

VDict(inner, x) == [k |-> "dict", i |-> inner, n |-> x]

\* isinstance(v, dict), isinstance(v, list)
IsDict(v) == v.k = "dict"

IsList(v) == v.k = "list"

\* `key in v` for the probed key of a dict
HasKey(v) == v.i # "absent"

\* v[key] for the probed key of a dict
Item(v) == [k |-> v.i, i |-> "na", n |-> v.n]

\* v.get(key, 0)
GetOrZero(v) == IF HasKey(v) THEN Item(v) ELSE VNum(0)

\* len(v) raises TypeError on None and on numbers
LenRaises(v) == v.k \in {"none", "num"}

PyLen(v) == IF v.k = "dict" THEN (IF v.i = "absent" THEN 0 ELSE 1) ELSE v.n

\* `v >= <int>` raises TypeError unless v is a number
GeRaises(v) == v.k # "num"

----------------------------------------------------------------------------
(* ConsolidacaoFinal.__init__                                                *)

quality_thresholds ==
    [ min_drivers_mentais |-> 2,
      min_provas_visuais  |-> 1,
      min_fontes_pesquisa |-> 3,
      min_insights        |-> 5,
      min_content_length  |-> 1000 ]

\* len(self.quality_thresholds)
total_criterios == Cardinality(DOMAIN quality_thresholds)

----------------------------------------------------------------------------
(* Names of steps and keys.                                                 *)

\* the four keys _validar_qualidade_dados probes
Sinais ==
    { "drivers_mentais_customizados", "provas_visuais_sugeridas",
      "pesquisa_web_massiva", "insights_exclusivos" }

\* the keys _coletar_todos_dados puts into dados_coletados itself
ChavesInternas ==
    { "dados_pipeline", "etapas_salvas", "arquivos_encontrados",
      "componentes_disponiveis" }

\* step names the model stores besides the signals
NomesExtras == { "projeto_dados", "consolidacao_iniciada" } \cup ChavesInternas

\* every step name of the model, in the order the store lists them
NomesEtapas ==
    << "projeto_dados", "pesquisa_web_massiva", "componentes_disponiveis",
       "drivers_mentais_customizados", "arquivos_encontrados",
       "provas_visuais_sugeridas", "dados_pipeline", "insights_exclusivos",
       "etapas_salvas", "consolidacao_iniciada" >>

RECURSIVE Filtrar(_, _)
\* the subsequence of s whose elements are in S
Filtrar(s, S) ==
    IF s = << >> THEN << >>
    ELSE IF Head(s) \in S THEN << Head(s) >> \o Filtrar(Tail(s), S)
    ELSE Filtrar(Tail(s), S)

Elementos(s) == { s[j] : j \in 1..Len(s) }

----------------------------------------------------------------------------
(* dados_coletados: the dict built by _coletar_todos_dados.                 *)
(*   dados_pipeline       [k, m]: Python type and, for a dict, its items    *)
(*   etapas_salvas        the dict of the listed steps, by their names      *)
(*   arquivos_encontrados number of listed files                            *)
(*   comp                 the object under 'componentes_disponiveis':       *)
(*                        the original list (intacto) holding nomes, or the *)
(*                        data of a step of that name (base) with the names *)
(*                        appended to it afterwards                         *)
(*   chaves               the keys assigned from stored steps (line 150)    *)

CompInicial == [intacto |-> TRUE, base |-> VList(0), nomes |-> << >>]

\* len(dados_coletados['componentes_disponiveis'])
CompLenRaises(dc) == ~dc.comp.intacto /\ LenRaises(dc.comp.base)

CompLen(dc) ==
    IF dc.comp.intacto THEN Len(dc.comp.nomes)
    ELSE IF IsList(dc.comp.base) THEN dc.comp.base.n + Len(dc.comp.nomes)
    ELSE PyLen(dc.comp.base)

\* `chave in dados_coletados` for a step or module name
TemChave(dc, chave) == chave \in DOMAIN dc.chaves

----------------------------------------------------------------------------
(* _validar_qualidade_dados                                                 *)

ValidacaoInicial(dc) ==
    [ qualidade_suficiente    |-> FALSE,
      componentes_encontrados |-> CompLen(dc),
      drivers_mentais_count   |-> 0,
      provas_visuais_count    |-> 0,
      pesquisa_fontes         |-> VNum(0),
      insights_count          |-> 0,
      problemas_identificados |-> << >>,
      recomendacoes           |-> << >>,
      tem_score               |-> FALSE,
      score_qualidade         |-> 0 ]

\* lines 183-186: the drivers value is a dict holding 'drivers_customizados'
DriversSondado(dc) ==
    /\ TemChave(dc, "drivers_mentais_customizados")
    /\ IsDict(dc.chaves["drivers_mentais_customizados"])
    /\ HasKey(dc.chaves["drivers_mentais_customizados"])

\* line 186: len(drivers_data['drivers_customizados']) raises
DriversLenRaises(dc) ==
    DriversSondado(dc) /\ LenRaises(Item(dc.chaves["drivers_mentais_customizados"]))

DriversCount(dc) ==
    IF DriversSondado(dc)
    THEN PyLen(Item(dc.chaves["drivers_mentais_customizados"]))
    ELSE 0

\* lines 189-192
ProvasCount(dc) ==
    IF /\ TemChave(dc, "provas_visuais_sugeridas")
       /\ IsList(dc.chaves["provas_visuais_sugeridas"])
    THEN dc.chaves["provas_visuais_sugeridas"].n
    ELSE 0

\* lines 195-198: pesquisa_data.get('unique_sources', 0), of whatever type
PesquisaFontes(dc) ==
    IF /\ TemChave(dc, "pesquisa_web_massiva")
       /\ IsDict(dc.chaves["pesquisa_web_massiva"])
    THEN GetOrZero(dc.chaves["pesquisa_web_massiva"])
    ELSE VNum(0)

\* lines 201-204
InsightsCount(dc) ==
    IF /\ TemChave(dc, "insights_exclusivos")
       /\ IsList(dc.chaves["insights_exclusivos"])
    THEN dc.chaves["insights_exclusivos"].n
    ELSE 0

Recomendacoes ==
    << "Configure mais APIs para melhorar qualidade",
       "Execute nova analise com dados mais especificos",
       "Verifique conectividade de internet",
       "Considere analise manual dos dados intermediarios" >>

\* lines 167-247; the score (criterios_atendidos / total_criterios) * 100 is
\* kept as an integer percentage (the float differs from it by rounding
\* only: 3 of 5 gives 60.00000000000001)
ValidarQualidadeDados(dc) ==
    LET v0 == ValidacaoInicial(dc)
        fontes == PesquisaFontes(dc)
        v1 == [v0 EXCEPT !.drivers_mentais_count = DriversCount(dc),
                         !.provas_visuais_count = ProvasCount(dc),
                         !.pesquisa_fontes = fontes,
                         !.insights_count = InsightsCount(dc)]
        okD == v1.drivers_mentais_count >= quality_thresholds.min_drivers_mentais
        okP == v1.provas_visuais_count >= quality_thresholds.min_provas_visuais
        okF == fontes.n >= quality_thresholds.min_fontes_pesquisa
        okI == v1.insights_count >= quality_thresholds.min_insights
        pD == IF okD THEN << >> ELSE << "Drivers mentais insuficientes" >>
        pP == IF okP THEN << >> ELSE << "Provas visuais insuficientes" >>
        pF == IF okF THEN << >> ELSE << "Fontes de pesquisa insuficientes" >>
        pI == IF okI THEN << >> ELSE << "Insights insuficientes" >>
        criterios_atendidos ==
            (IF okD THEN 1 ELSE 0) + (IF okP THEN 1 ELSE 0)
            + (IF okF THEN 1 ELSE 0) + (IF okI THEN 1 ELSE 0)
        \* (criterios_atendidos / total_criterios) >= 0.6
        suficiente == criterios_atendidos * 10 >= 6 * total_criterios
    IN  IF DriversLenRaises(dc)
        THEN \* line 186 raises: nothing after it runs, the except branch does
             [v0 EXCEPT !.problemas_identificados = << "Erro na validacao" >>]
        ELSE IF GeRaises(fontes)
        THEN \* line 220 raises after the drivers and provas criteria ran
             [v1 EXCEPT !.problemas_identificados =
                            pD \o pP \o << "Erro na validacao" >>]
        ELSE [v1 EXCEPT
                !.problemas_identificados = pD \o pP \o pF \o pI,
                !.qualidade_suficiente = suficiente,
                !.tem_score = TRUE,
                !.score_qualidade = (criterios_atendidos * 100) \div total_criterios,
                !.recomendacoes = IF suficiente THEN << >> ELSE Recomendacoes]

----------------------------------------------------------------------------
(* The step store (auto_save_manager) as this module uses it.  An entry of  *)
(* store is [st, dados]: st = "ausente" (not listed), "sucesso" or "erro"   *)
(* (the status of the loaded record) or "corrompido" (recuperar_etapa       *)
(* raises).                                                                 *)

SessionId == "sessao_1"

\* the characters of the session ids of the model
Letras(sid) ==
    CASE sid = "sessao_1" -> << "s", "e", "s", "s", "a", "o", "_", "1" >>
      [] sid = "sessao_1b" -> << "s", "e", "s", "s", "a", "o", "_", "1", "b" >>
      [] sid = "sessao_2" -> << "s", "e", "s", "s", "a", "o", "_", "2" >>

\* line 660: session_id[:8]
PrefixoDaSessao(sid) ==
    SubSeq(Letras(sid), 1, IF Len(Letras(sid)) < 8 THEN Len(Letras(sid)) ELSE 8)

\* line 143: the dict listar_etapas_salvas returned, by its keys
EtapasSalvas(nomes) == [k |-> "dict", nomes |-> nomes]

\* auto_save_manager.listar_etapas_salvas(session_id).keys()
EtapasListadas(st) == { nome \in DOMAIN st : st[nome].st # "ausente" }

\* dados_coletados as initialised at lines 133-138
DadosIniciais(dp) ==
    [ dados_pipeline       |-> dp,
      etapas_salvas        |-> EtapasSalvas({}),
      arquivos_encontrados |-> 0,
      comp                 |-> CompInicial,
      chaves               |-> << >> ]

\* a step's data seen as the object under 'dados_pipeline'
ComoPipeline(v) == [k |-> v.k, m |-> << >>]

\* line 150: dados_coletados[etapa_nome] = dados_etapa.get('dados')
AtribuirEtapa(dc, nome, v) ==
    [dc EXCEPT
        !.chaves = (nome :> v) @@ dc.chaves,
        !.comp = IF nome = "componentes_disponiveis"
                 THEN [intacto |-> FALSE, base |-> v, nomes |-> << >>]
                 ELSE @,
        !.dados_pipeline = IF nome = "dados_pipeline" THEN ComoPipeline(v) ELSE @,
        !.etapas_salvas = IF nome = "etapas_salvas" THEN v ELSE @]

\* line 151: dados_coletados['componentes_disponiveis'].append(etapa_nome);
\* on an object that is no list the AttributeError is caught at line 152
AnexarComponente(dc, nome) ==
    IF dc.comp.intacto \/ IsList(dc.comp.base)
    THEN [dc EXCEPT !.comp.nomes = Append(@, nome)]
    ELSE dc

RECURSIVE RecuperarEtapas(_, _, _)
\* lines 146-154: the loop over etapas_salvas.keys()
RecuperarEtapas(st, nomes, dc) ==
    IF nomes = << >> THEN dc
    ELSE LET nome == Head(nomes)
         IN  RecuperarEtapas(st, Tail(nomes),
                IF st[nome].st = "sucesso"
                THEN AnexarComponente(AtribuirEtapa(dc, nome, st[nome].dados), nome)
                ELSE dc)

\* lines 130-165 when listar_etapas_salvas succeeds; listados is the number
\* of files _listar_arquivos_intermediarios returns
ColetarTodosDados(st, ord, dp, listados) ==
    LET dc0 == [DadosIniciais(dp) EXCEPT
                   !.etapas_salvas = EtapasSalvas(EtapasListadas(st))]
        dc1 == RecuperarEtapas(st, ord, dc0)
    IN  [dc1 EXCEPT !.arquivos_encontrados = listados]

\* dados_coletados[chave] for the name of a recovered step
ValorColetado(dc, chave) ==
    IF chave = "arquivos_encontrados" THEN VList(dc.arquivos_encontrados)
    ELSE IF chave = "componentes_disponiveis" THEN
        (IF IsList(dc.comp.base) THEN VList(CompLen(dc)) ELSE dc.comp.base)
    ELSE dc.chaves[chave]

----------------------------------------------------------------------------
(* Reports.  A report is a Python dict: a function from its keys to their   *)
(* values, so that a key the code does not set is absent from its DOMAIN.   *)
(* A generator returns an outcome [exc, erro, rel, erros, salvos, nf]: exc  *)
(* tells whether an exception leaves the function, erro is its text, rel    *)
(* the returned report, erros and salvos the salvar_erro and salvar_etapa   *)
(* calls it made, nf the collaborator failures that happened inside it.     *)

Agora == "datetime.now"

\* f"relatorios_intermediarios/{session_id}/"
DiretorioSessao(sid) == << "relatorios_intermediarios", sid >>

SemRelatorio == [tipo |-> "nenhum"]

Chaves(rel) == DOMAIN rel

\* lines 677-721; the listing inside it cannot raise, salvar_etapa can
FallbackAbsoluto(sid, err, listados, fSalvar) ==
    IF ~fSalvar
    THEN [ rel |->
             [ tipo                   |-> "relatorio_emergencia",
               session_id             |-> sid,
               timestamp              |-> Agora,
               status                 |-> "ERRO_MAS_DADOS_PRESERVADOS",
               erro_consolidacao      |-> err,
               garantias              |-> [ dados_perdidos |-> "NENHUM",
                                            localizacao_dados |-> DiretorioSessao(sid) ],
               instrucoes_recuperacao |-> << DiretorioSessao(sid) >>,
               arquivos_disponiveis   |-> listados,
               valor_preservado       |-> "ALTO" ],
           salvos |-> << "relatorio_emergencia" >>,
           nf |-> 0 ]
    ELSE [ rel |->
             [ tipo          |-> "emergencia_critica",
               session_id    |-> sid,
               timestamp     |-> Agora,
               erro_original |-> err,
               erro_fallback |-> "salvar_etapa",
               status        |-> "CRITICO_MAS_SESSAO_PRESERVADA",
               instrucao     |-> DiretorioSessao(sid) ],
           salvos |-> << >>,
           nf |-> 1 ]

\* the statements of lines 302-357 that raise
MinimoRaises(dc) ==
    \/ ~TemChave(dc, "projeto_dados") /\ dc.dados_pipeline.k # "dict"  \* line 315
    \/ CompLenRaises(dc)                                                \* line 330

\* lines 312-315
ProjetoDadosMinimo(dc) ==
    IF TemChave(dc, "projeto_dados") THEN dc.chaves["projeto_dados"]
    ELSE IF "projeto_dados" \in DOMAIN dc.dados_pipeline.m
    THEN dc.dados_pipeline.m["projeto_dados"]
    ELSE VDict("absent", 0)

\* lines 329-334: the names in componentes_disponiveis that are keys of
\* dados_coletados, each with dados_coletados[name]
ComponentesRecuperados(dc) ==
    [ c \in Elementos(dc.comp.nomes) |-> ValorColetado(dc, c) ]

\* lines 302-357
RelatorioMinimo(dc, sid, val) ==
    [ tipo                    |-> "relatorio_minimo",
      session_id              |-> sid,
      timestamp               |-> Agora,
      status                  |-> "parcial_mas_preservado",
      qualidade_limitada      |-> TRUE,
      score_qualidade         |-> val.score_qualidade,
      projeto_dados           |-> ProjetoDadosMinimo(dc),
      componentes_gerados     |-> dc.comp,
      arquivos_intermediarios |->
          [ localizacao          |-> DiretorioSessao(sid),
            arquivos_disponiveis |-> dc.arquivos_encontrados,
            total_arquivos       |-> dc.arquivos_encontrados ],
      dados_recuperados       |-> ComponentesRecuperados(dc),
      diagnostico_problemas   |->
          [ problemas_identificados |-> val.problemas_identificados,
            recomendacoes           |-> val.recomendacoes ],
      resumo_preservacao      |->
          [ dados_perdidos         |-> "NENHUM",
            componentes_executados |-> CompLen(dc),
            arquivos_salvos        |-> dc.arquivos_encontrados ] ]

\* lines 293-362
GerarRelatorioMinimo(dc, sid, val, listados, fErro, fEmerg) ==
    IF ~MinimoRaises(dc)
    THEN [ exc |-> FALSE, erro |-> "", rel |-> RelatorioMinimo(dc, sid, val),
           erros |-> << >>, salvos |-> << >>, nf |-> 0 ]
    ELSE IF fErro
    THEN \* salvar_erro raises inside the except branch (line 361)
         [ exc |-> TRUE, erro |-> "salvar_erro", rel |-> SemRelatorio,
           erros |-> << >>, salvos |-> << >>, nf |-> 1 ]
    ELSE LET fb == FallbackAbsoluto(sid, "erro_relatorio_minimo", listados, fEmerg)
         IN  [ exc |-> FALSE, erro |-> "", rel |-> fb.rel,
               erros |-> << "relatorio_minimo" >>, salvos |-> fb.salvos,
               nf |-> fb.nf ]

\* line 267
componentes_principais ==
    << "projeto_dados", "pesquisa_web_massiva", "avatar_ultra_detalhado",
       "drivers_mentais_customizados", "provas_visuais_sugeridas",
       "sistema_anti_objecao", "pre_pitch_invisivel",
       "predicoes_futuro_completas", "insights_exclusivos" >>

\* `componente in dados_coletados.get('dados_pipeline', {})` raises TypeError
\* on None and on a number (line 277)
PipelineInRaises(dp) == dp.k \in {"none", "num"}

PipelineTem(dp, c) == dp.k = "dict" /\ c \in DOMAIN dp.m

\* the statements of lines 258-286 that raise
CompletoRaises(dc, val) ==
    \/ ~val.tem_score                                                   \* line 263
    \/ /\ \E j \in 1..Len(componentes_principais) :
            ~TemChave(dc, componentes_principais[j])
       /\ PipelineInRaises(dc.dados_pipeline)                           \* line 277

\* lines 274-278 with the two branches swapped: the nested pipeline value wins
ModulosCopiadosDoPipeline(dc) ==
    [ c \in { x \in Elementos(componentes_principais) :
                TemChave(dc, x) \/ PipelineTem(dc.dados_pipeline, x) }
        |-> IF PipelineTem(dc.dados_pipeline, c)
            THEN dc.dados_pipeline.m[c] ELSE dc.chaves[c] ]

\* lines 274-278
ModulosCopiados(dc) ==
    [ c \in { x \in Elementos(componentes_principais) :
                TemChave(dc, x) \/ PipelineTem(dc.dados_pipeline, x) }
        |-> IF TemChave(dc, c) THEN dc.chaves[c] ELSE dc.dados_pipeline.m[c] ]

\* lines 364-411
GerarResumoExecutivo(dc, val) ==
    IF \/ TemChave(dc, "projeto_dados") /\ ~IsDict(dc.chaves["projeto_dados"])
       \/ CompLenRaises(dc)
    THEN [ erro |-> "Falha na geracao do resumo executivo" ]
    ELSE [ segmento_analisado  |->
               IF TemChave(dc, "projeto_dados") /\ HasKey(dc.chaves["projeto_dados"])
               THEN Item(dc.chaves["projeto_dados"]) ELSE VStr(0),
           qualidade_analise   |-> val.score_qualidade,
           componentes_gerados |-> CompLen(dc),
           principais_descobertas |->
               IF TemChave(dc, "insights_exclusivos")
                  /\ IsList(dc.chaves["insights_exclusivos"])
               THEN (IF dc.chaves["insights_exclusivos"].n < 5
                     THEN dc.chaves["insights_exclusivos"].n ELSE 5)
               ELSE 0,
           recomendacoes_imediatas |->
               (IF TemChave(dc, "drivers_mentais_customizados")
                THEN << val.drivers_mentais_count >> ELSE << >>)
               \o (IF TemChave(dc, "provas_visuais_sugeridas")
                   THEN << val.provas_visuais_count >> ELSE << >>) ]

\* line 427
componentes_esperados ==
    { "pesquisa_web_massiva", "avatar_ultra_detalhado",
      "drivers_mentais_customizados", "provas_visuais_sugeridas",
      "sistema_anti_objecao", "pre_pitch_invisivel" }

\* lines 413-452
GerarDiagnosticoFinal(dc, val) ==
    IF CompLenRaises(dc)
    THEN [ status_geral |-> "ERRO_MAS_DADOS_SALVOS", dados_preservados |-> TRUE ]
    ELSE [ status_geral |-> IF val.qualidade_suficiente
                            THEN "SUCESSO_PARCIAL" ELSE "DADOS_PRESERVADOS",
           componentes_funcionaram |-> dc.comp,
           componentes_falharam |-> componentes_esperados \ Elementos(dc.comp.nomes),
           qualidade_geral |-> val.score_qualidade,
           dados_preservados |-> TRUE ]

\* lines 258-286
RelatorioCompleto(dc, sid, val) ==
    ModulosCopiados(dc) @@
    [ tipo               |-> "relatorio_completo",
      session_id         |-> sid,
      timestamp          |-> Agora,
      qualidade_validada |-> TRUE,
      score_qualidade    |-> val.score_qualidade,
      resumo_executivo   |-> GerarResumoExecutivo(dc, val),
      diagnostico_final  |-> GerarDiagnosticoFinal(dc, val) ]

\* lines 249-291
GerarRelatorioCompleto(dc, sid, val, listados, fErroC, fErro, fEmerg) ==
    IF ~CompletoRaises(dc, val)
    THEN [ exc |-> FALSE, erro |-> "", rel |-> RelatorioCompleto(dc, sid, val),
           erros |-> << >>, salvos |-> << >>, nf |-> 0 ]
    ELSE IF fErroC
    THEN \* salvar_erro raises inside the except branch (line 290)
         [ exc |-> TRUE, erro |-> "salvar_erro", rel |-> SemRelatorio,
           erros |-> << >>, salvos |-> << >>, nf |-> 1 ]
    ELSE LET m == GerarRelatorioMinimo(dc, sid, val, listados, fErro, fEmerg)
         IN  [m EXCEPT !.erros = << "relatorio_completo" >> \o @]

----------------------------------------------------------------------------
(* Inputs of one consolidar_analise_completa call.                          *)

EntradaAusente == [st |-> "ausente", dados |-> VNone]

\* a well-formed value holding exactly the signal's minimum
ValorMinimo(nome) ==
    CASE nome = "drivers_mentais_customizados" ->
             VDict("list", quality_thresholds.min_drivers_mentais)
      [] nome = "provas_visuais_sugeridas" ->
             VList(quality_thresholds.min_provas_visuais)
      [] nome = "pesquisa_web_massiva" ->
             VDict("num", quality_thresholds.min_fontes_pesquisa)
      [] nome = "insights_exclusivos" ->
             VList(quality_thresholds.min_insights)

\* a well-formed value one below the signal's minimum
ValorAbaixo(nome) == [ValorMinimo(nome) EXCEPT !.n = @ - 1]

\* values of the wrong type for the signal
ValoresMalformados(nome) ==
    CASE nome = "drivers_mentais_customizados" ->
             { VDict("num", 2), VDict("str", 2), VList(2) }
      [] nome = "provas_visuais_sugeridas" -> { VStr(1) }
      [] nome = "pesquisa_web_massiva" -> { VDict("str", 3), VDict("none", 0) }
      [] nome = "insights_exclusivos" -> { VNone }

\* the entries of a signal other than "absent" and "stored well-formed at
\* its minimum"
EntradasAnomalas(nome) ==
    IF nome \in Sinais
    THEN { [st |-> "sucesso", dados |-> v] :
              v \in {ValorAbaixo(nome)} \cup ValoresMalformados(nome) }
         \cup { [st |-> "erro", dados |-> ValorMinimo(nome)],
                [st |-> "corrompido", dados |-> ValorMinimo(nome)] }
    ELSE CASE nome = "projeto_dados" ->
                  { [st |-> "sucesso", dados |-> VDict("str", 1)],
                    [st |-> "sucesso", dados |-> VNone],
                    [st |-> "erro", dados |-> VDict("str", 1)] }
           [] nome = "consolidacao_iniciada" ->
                  { [st |-> "sucesso", dados |-> VDict("absent", 0)] }
           [] nome = "componentes_disponiveis" ->
                  { [st |-> "sucesso", dados |-> VNone],
                    [st |-> "sucesso", dados |-> VList(1)],
                    [st |-> "sucesso", dados |-> VDict("absent", 0)] }
           [] nome = "arquivos_encontrados" ->
                  { [st |-> "sucesso", dados |-> VList(MaxArquivos + 1)] }
           [] nome = "dados_pipeline" ->
                  { [st |-> "sucesso", dados |-> VNone],
                    [st |-> "sucesso", dados |-> VDict("absent", 0)] }
           [] nome = "etapas_salvas" ->
                  { [st |-> "sucesso", dados |-> VList(1)] }

\* the sets of signals stored well-formed at their minimum: none, the two of
\* a half-complete session, three of four, all four
BasesDeSinais ==
    { {}, { "drivers_mentais_customizados", "insights_exclusivos" },
      Sinais \ { "provas_visuais_sugeridas" }, Sinais }

\* the stores of the model: every signal absent or stored at its minimum,
\* except for at most MaxExtras entries that are anomalous signals or steps
\* of other names
Lojas ==
    { [ nome \in Elementos(NomesEtapas) |->
          IF nome \in DOMAIN f THEN f[nome]
          ELSE IF nome \in B
          THEN [st |-> "sucesso", dados |-> ValorMinimo(nome)]
          ELSE EntradaAusente ] :
        B \in BasesDeSinais,
        f \in UNION { { g \in [A -> UNION { EntradasAnomalas(a) : a \in A }] :
                          \A a \in A : g[a] \in EntradasAnomalas(a) } :
                      A \in { X \in SUBSET Elementos(NomesEtapas) :
                                Cardinality(X) <= MaxExtras } } }

\* the values of the dados_pipeline argument
PipelinesDeEntrada ==
    { [k |-> "none", m |-> << >>],
      [k |-> "dict", m |-> << >>],
      [k |-> "dict",
       m |-> [ c \in { "projeto_dados", "insights_exclusivos", "consolidacao_iniciada" }
                 |-> IF c = "projeto_dados" THEN VDict("str", 2)
                     ELSE IF c = "insights_exclusivos"
                     THEN VList(quality_thresholds.min_insights + 2)
                     ELSE VNum(1) ]] }

RECURSIVE Rotacoes(_, _)
Rotacoes(s, j) ==
    IF j = 0 THEN {s}
    ELSE {s} \cup Rotacoes(Tail(s) \o << Head(s) >>, j - 1)

\* the orders in which etapas_salvas.keys() may come: the order matters only
\* once a step named componentes_disponiveis replaces the list being built
Ordens(st) ==
    LET listadas == Filtrar(NomesEtapas, EtapasListadas(st))
    IN  IF st["componentes_disponiveis"].st = "sucesso"
        THEN Rotacoes(listadas, Len(listadas) - 1)
        ELSE {listadas}

\* a file of the session left by a pipeline stage
ArquivoDeEtapa(j) == << "etapa", SessionId, j, ".json" >>

\* the name _salvar_formato gives a json report of the session within the
\* current second (line 660)
ArquivoDoSegundo ==
    << "relatorio_final", PrefixoDaSessao(SessionId), Agora, ".json" >>

\* the disks holding n files that name the session: files of pipeline
\* stages, one of which may be a report rendered by an earlier call within
\* the same second
DiscosIniciais(n) ==
    IF n = 0 THEN { << >> }
    ELSE { [ nome \in nomes |-> "anterior" ] :
             nomes \in { { ArquivoDeEtapa(j) : j \in 1..n },
                         { ArquivoDoSegundo } \cup
                             { ArquivoDeEtapa(j) : j \in 1..(n - 1) } } }

SemDados == [coletado |-> FALSE]

\* line 482: formatos_gerados = {} and no format visited yet
LacoInicial == [k |-> 0, falhas |-> {}]

\* no call of _gerar_multiplos_formatos takes place
SemLaco == << >>

SemValidacao == [feita |-> FALSE]

SemResultado == [status |-> "nenhum"]

Init ==
    /\ pc = "inicio"
    /\ store \in Lojas
    /\ ordem \in Ordens(store)
    /\ dados_pipeline \in PipelinesDeEntrada
    /\ force_minimal \in BOOLEAN
    /\ arquivos \in {0, MaxArquivos}
    /\ dados_coletados = SemDados
    /\ validacao = SemValidacao
    /\ relatorio_final = SemRelatorio
    /\ resultado = SemResultado
    /\ erro = ""
    /\ salvos = << >>
    /\ erros = << >>
    /\ escritos = {}
    /\ relogio = Agora
    /\ laco = (SessionId :> LacoInicial)
    /\ session_id = SessionId
    /\ \E d \in DiscosIniciais(arquivos) : disco = [inicial |-> d, atual |-> d]
    /\ faults = 0
    /\ extracao = SemExtracao
    /\ geracao = SemGeracao

----------------------------------------------------------------------------
(* consolidar_analise_completa, one action per numbered step of its body.   *)
(* A collaborator call (salvar_etapa, salvar_erro, auto_save_manager,       *)
(* analyses_data_manager) either returns or raises; at most MaxFaults of    *)
(* them raise during one call.                                              *)

\* a listing that leaves out the files that were on disk when the call began
ListarSemOsAnteriores == arquivos - Cardinality(DOMAIN disco.inicial)

\* _listar_arquivos_intermediarios(session_id): catches its own exceptions
ListarArquivosIntermediarios == arquivos

PodeFalhar(f) == f => faults < MaxFaults

\* an exception reaches the except branch of line 123
Levantar(texto) ==
    /\ pc' = "except"
    /\ erro' = texto

\* lines 53-58
Iniciar ==
    /\ pc = "inicio"
    /\ \E f \in BOOLEAN :
         /\ PodeFalhar(f)
         /\ IF f
            THEN /\ Levantar("salvar_etapa")
                 /\ faults' = faults + 1
                 /\ UNCHANGED salvos
            ELSE /\ pc' = "coletar"
                 /\ salvos' = Append(salvos, "consolidacao_iniciada")
                 /\ UNCHANGED << erro, faults >>
    /\ UNCHANGED << extracao, geracao, store, disco, relogio, laco, session_id, ordem, dados_pipeline, force_minimal, arquivos,
                    dados_coletados, validacao, relatorio_final, resultado, erros,
                    escritos >>

\* line 61: _coletar_todos_dados.  fListar: listar_etapas_salvas raises (line
\* 142); line 159 raises when the object under 'componentes_disponiveis' has
\* no len().  Either way the except branch of line 161 calls salvar_erro,
\* which may itself raise (fErro), and the data gathered so far is returned.
Coletar ==
    /\ pc = "coletar"
    /\ \E fListar, fErro \in BOOLEAN :
         LET dc == IF fListar
                   THEN DadosIniciais(dados_pipeline)
                   ELSE ColetarTodosDados(store, ordem, dados_pipeline,
                                          ListarArquivosIntermediarios)
             excecao == fListar \/ CompLenRaises(dc)
             nf == (IF fListar THEN 1 ELSE 0) + (IF fErro THEN 1 ELSE 0)
         IN  /\ fErro => excecao
             /\ faults + nf <= MaxFaults
             /\ faults' = faults + nf
             /\ IF fErro
                THEN /\ Levantar("salvar_erro")
                     /\ UNCHANGED << dados_coletados, erros >>
                ELSE /\ dados_coletados' = dc
                     /\ erros' = IF excecao THEN Append(erros, "coleta_dados")
                                 ELSE erros
                     /\ pc' = "validar"
                     /\ UNCHANGED erro
    /\ UNCHANGED << extracao, geracao, store, disco, relogio, laco, session_id, ordem, dados_pipeline, force_minimal, arquivos,
                    validacao, relatorio_final, resultado, salvos, escritos >>

\* lines 63-65; line 172 is outside the try of _validar_qualidade_dados
Validar ==
    /\ pc = "validar"
    /\ IF CompLenRaises(dados_coletados)
       THEN /\ Levantar("TypeError")
            /\ UNCHANGED << validacao, salvos, faults >>
       ELSE \E f \in BOOLEAN :
              /\ PodeFalhar(f)
              /\ validacao' = ValidarQualidadeDados(dados_coletados)
              /\ IF f
                 THEN /\ Levantar("salvar_etapa")
                      /\ faults' = faults + 1
                      /\ UNCHANGED salvos
                 ELSE /\ pc' = "gerar"
                      /\ salvos' = Append(salvos, "validacao_qualidade")
                      /\ UNCHANGED << erro, faults >>
    /\ UNCHANGED << extracao, geracao, store, disco, relogio, laco, session_id, ordem, dados_pipeline, force_minimal, arquivos,
                    dados_coletados, relatorio_final, resultado, erros, escritos >>

\* line 68 without the force_minimal operand
CaminhoSoQualidade(fm, val) == ~val.qualidade_suficiente

\* line 68: the report path
CaminhoMinimo(fm, val) == fm \/ ~val.qualidade_suficiente

\* lines 67-73
GerarRelatorio(dc, sid, val, fm, listados, fErroC, fErro, fEmerg) ==
    IF CaminhoMinimo(fm, val)
    THEN GerarRelatorioMinimo(dc, sid, val, listados, fErro, fEmerg)
    ELSE GerarRelatorioCompleto(dc, sid, val, listados, fErroC, fErro, fEmerg)

Gerar ==
    /\ pc = "gerar"
    /\ \E fErroC, fErro, fEmerg \in BOOLEAN :
         LET r == GerarRelatorio(dados_coletados, SessionId, validacao,
                                 force_minimal, ListarArquivosIntermediarios,
                                 fErroC, fErro, fEmerg)
         IN  /\ faults + r.nf <= MaxFaults
             /\ faults' = faults + r.nf
             /\ erros' = erros \o r.erros
             /\ salvos' = salvos \o r.salvos
             /\ IF r.exc
                THEN /\ Levantar(r.erro)
                     /\ UNCHANGED relatorio_final
                ELSE /\ relatorio_final' = r.rel
                     /\ pc' = "integrar"
                     /\ UNCHANGED erro
    /\ UNCHANGED << extracao, geracao, store, disco, relogio, laco, session_id, ordem, dados_pipeline, force_minimal, arquivos,
                    dados_coletados, validacao, resultado, escritos >>

\* lines 75-88: analyses_data_manager.ensure_modules_exist() and
\* integrate_to_final_analysis(); their result is not used afterwards
Integrar ==
    /\ pc = "integrar"
    /\ \E f \in BOOLEAN :
         /\ PodeFalhar(f)
         /\ IF f
            THEN /\ Levantar("analyses_data_manager")
                 /\ faults' = faults + 1
            ELSE /\ pc' = "metadados"
                 /\ UNCHANGED << erro, faults >>
    /\ UNCHANGED << extracao, geracao, store, disco, relogio, laco, session_id, ordem, dados_pipeline, force_minimal, arquivos,
                    dados_coletados, validacao, relatorio_final, resultado,
                    salvos, erros, escritos >>

\* lines 97-105 with an empty assessment in place of validacao_qualidade
MetadataSemQualidade(sid, val, fm, listados) ==
    [ session_id              |-> sid,
      timestamp_consolidacao  |-> Agora,
      qualidade_dados         |-> ValidacaoInicial(DadosIniciais(VNone)),
      tipo_relatorio          |-> IF CaminhoMinimo(fm, val) THEN "minimo" ELSE "completo",
      arquivos_intermediarios |-> listados,
      garantia_dados          |-> "Todos os dados intermediarios preservados",
      acesso_direto           |-> DiretorioSessao(sid) ]

\* lines 97-105
MetadataConsolidacao(sid, val, fm, listados) ==
    [ session_id              |-> sid,
      timestamp_consolidacao  |-> Agora,
      qualidade_dados         |-> val,
      tipo_relatorio          |-> IF CaminhoMinimo(fm, val) THEN "minimo" ELSE "completo",
      arquivos_intermediarios |-> listados,
      garantia_dados          |-> "Todos os dados intermediarios preservados",
      acesso_direto           |-> DiretorioSessao(sid) ]

\* lines 96-108: the metadata block, then salvar_etapa of the report
Metadados ==
    /\ pc = "metadados"
    /\ relatorio_final' =
          [ metadata_consolidacao |->
               MetadataConsolidacao(SessionId, validacao, force_minimal,
                                    ListarArquivosIntermediarios) ]
          @@ relatorio_final
    /\ \E f \in BOOLEAN :
         /\ PodeFalhar(f)
         /\ IF f
            THEN /\ Levantar("salvar_etapa")
                 /\ faults' = faults + 1
                 /\ UNCHANGED salvos
            ELSE /\ pc' = "formatos"
                 /\ salvos' = Append(salvos, "relatorio_final_consolidado")
                 /\ UNCHANGED << erro, faults >>
    /\ UNCHANGED << extracao, geracao, store, disco, relogio, laco, session_id, ordem, dados_pipeline, force_minimal, arquivos,
                    dados_coletados, validacao, resultado, erros, escritos >>

----------------------------------------------------------------------------
(* _gerar_multiplos_formatos and the renderers.                             *)

\* self.template_engines, in insertion order
template_engines == << "markdown", "html", "json", "minimal" >>

\* line 651
extensoes ==
    [ markdown |-> ".md", html |-> ".html", json |-> ".json", minimal |-> ".txt" ]

\* lines 520-527: iterating drivers['drivers_customizados'] and calling
\* driver.get on each item raises when the value is not iterable or is a
\* non-empty string; the items of a list are taken to be dicts
MarkdownRaises(rel) ==
    /\ "drivers_mentais_customizados" \in Chaves(rel)
    /\ IsDict(rel["drivers_mentais_customizados"])
    /\ HasKey(rel["drivers_mentais_customizados"])
    /\ \/ LenRaises(Item(rel["drivers_mentais_customizados"]))
       \/ /\ Item(rel["drivers_mentais_customizados"]).k = "str"
          /\ Item(rel["drivers_mentais_customizados"]).n > 0

\* the renderers of lines 498-644; html and minimal only read with .get and
\* _generate_json_report catches its own failure
RendererRaises(formato, rel) == formato = "markdown" /\ MarkdownRaises(rel)

\* line 660: f"relatorio_final_{session_id[:8]}_{timestamp}{extensao}", for
\* the second t read at line 659
NomeArquivoEm(formato, sid, t) ==
    << "relatorio_final", PrefixoDaSessao(sid), t, extensoes[formato] >>

\* the name of a file written in the second of the modelled call
NomeArquivo(formato, sid) == NomeArquivoEm(formato, sid, Agora)

\* lines 646-675: the path, or the error text when writing fails
SalvarFormato(formato, sid, fDisco) ==
    IF fDisco THEN << "Erro ao salvar" >> ELSE NomeArquivo(formato, sid)

\* lines 479-496 without the try inside the loop: the first renderer that
\* raises ends the loop, and the formats after it are not attempted
GerarFormatosAteFalhar(rel, sid, falhas) ==
    LET falhou(j) == RendererRaises(template_engines[j], rel)
        feitos == { j \in 1..Len(template_engines) :
                      \A h \in 1..j : ~falhou(h) }
    IN  [ formato \in { template_engines[j] : j \in feitos }
            |-> SalvarFormato(formato, sid, formato \in falhas) ]

\* lines 479-496; falhas: the formats whose file cannot be written
GerarMultiplosFormatos(rel, sid, falhas) ==
    [ formato \in { x \in Elementos(template_engines) : ~RendererRaises(x, rel) }
        |-> SalvarFormato(formato, sid, formato \in falhas) ]

\* the rendering a renderer produces of a report: it shows the report's
\* type and session id
Renderizado(formato, rel) == << formato, rel.tipo, rel.session_id >>

\* lines 666-669: open(filepath, 'w') creates the file or replaces the
\* content of an existing file of that name
GravarArquivo(arqs, nome, conteudo) == (nome :> conteudo) @@ arqs

\* the formats visited from the back of template_engines
FormatoDeTras(l) == template_engines[Len(template_engines) - l.k]

\* line 484: the format the loop visits next
FormatoDaVez(l) == template_engines[l.k + 1]

\* lines 484-494: one iteration of the loop of _gerar_multiplos_formatos;
\* fDisco: the file cannot be written
Renderizar ==
    /\ pc = "formatos"
    /\ laco[SessionId].k < Len(template_engines)
    /\ \E fDisco \in BOOLEAN :
         LET l == laco[SessionId]
             f == FormatoDaVez(l)
             levanta == RendererRaises(f, relatorio_final)
             nome == NomeArquivoEm(f, SessionId, relogio)
         IN  /\ fDisco => (~levanta /\ faults < MaxFaults)
             /\ faults' = faults + (IF fDisco THEN 1 ELSE 0)
             /\ laco' = [laco EXCEPT ![SessionId] =
                           [k |-> l.k + 1,
                            falhas |-> IF fDisco THEN l.falhas \cup { f }
                                       ELSE l.falhas]]
             /\ IF levanta \/ fDisco
                THEN UNCHANGED << escritos, disco >>
                ELSE /\ escritos' = escritos \cup { nome }
                     /\ disco' = [disco EXCEPT !.atual =
                           GravarArquivo(@, nome, Renderizado(f, relatorio_final))]
    /\ UNCHANGED << extracao, geracao, pc, store, relogio, session_id, ordem, dados_pipeline,
                    force_minimal, arquivos, dados_coletados, validacao,
                    relatorio_final, resultado, erro, salvos, erros >>

\* lines 110-121: the loop is over, the result is returned
Formatos ==
    /\ pc = "formatos"
    /\ laco[SessionId].k = Len(template_engines)
    /\ resultado' =
          [ relatorio_principal  |-> relatorio_final,
            formatos_disponiveis |->
                GerarMultiplosFormatos(relatorio_final, SessionId,
                                       laco[SessionId].falhas),
            status               |-> "consolidado_com_sucesso",
            qualidade            |-> validacao,
            session_id           |-> SessionId ]
    /\ pc' = "done"
    /\ UNCHANGED << extracao, geracao, store, disco, relogio, laco, session_id, ordem,
                    dados_pipeline, force_minimal, arquivos, dados_coletados,
                    validacao, relatorio_final, erro, salvos, erros, escritos,
                    faults >>

----------------------------------------------------------------------------
(* The except branch of consolidar_analise_completa.                        *)

\* lines 123-128 with the handler re-raising instead of falling back
TratarExcecaoRelanca(sid, err, listados, fErro, fEmerg) ==
    [ exc |-> TRUE, erro |-> err, rel |-> SemRelatorio,
      erros |-> << "consolidacao_final" >>, salvos |-> << >>, nf |-> 0 ]

\* lines 123-128: salvar_erro is called before the fallback and is not
\* itself guarded
TratarExcecao(sid, err, listados, fErro, fEmerg) ==
    IF fErro
    THEN [ exc |-> TRUE, erro |-> "salvar_erro", rel |-> SemRelatorio,
           erros |-> << >>, salvos |-> << >>, nf |-> 1 ]
    ELSE LET fb == FallbackAbsoluto(sid, err, listados, fEmerg)
         IN  [ exc |-> FALSE, erro |-> "", rel |-> fb.rel,
               erros |-> << "consolidacao_final" >>, salvos |-> fb.salvos,
               nf |-> fb.nf ]

Except ==
    /\ pc = "except"
    /\ \E fErro, fEmerg \in BOOLEAN :
         LET r == TratarExcecao(SessionId, erro, ListarArquivosIntermediarios,
                                fErro, fEmerg)
         IN  /\ faults + r.nf <= MaxFaults
             /\ faults' = faults + r.nf
             /\ erros' = erros \o r.erros
             /\ salvos' = salvos \o r.salvos
             /\ IF r.exc
                THEN /\ pc' = "raised"
                     /\ erro' = r.erro
                     /\ UNCHANGED resultado
                ELSE /\ pc' = "done"
                     /\ resultado' = r.rel
                     /\ UNCHANGED erro
    /\ UNCHANGED << extracao, geracao, store, disco, relogio, laco, session_id, ordem, dados_pipeline, force_minimal, arquivos,
                    dados_coletados, validacao, relatorio_final, escritos >>

Next ==
    \/ Iniciar
    \/ Coletar
    \/ Validar
    \/ Gerar
    \/ Integrar
    \/ Metadados
    \/ Renderizar
    \/ Formatos
    \/ Except

Spec == Init /\ [][Next]_vars

----------------------------------------------------------------------------
(* _validar_qualidade_dados on its own: the collected data ranges over      *)
(* every combination of an absent key, a well-typed value with a count from *)
(* 0 to the minimum + MaxAlem, and values of the wrong type.                *)

VAusente == [k |-> "ausente", i |-> "na", n |-> 0]

ValoresDeSinal(nome) ==
    { VAusente, VNone }
    \cup ValoresMalformados(nome)
    \cup { [ValorMinimo(nome) EXCEPT !.n = c] :
              c \in 0..(ValorMinimo(nome).n + MaxAlem) }
    \cup (IF IsDict(ValorMinimo(nome)) THEN { VDict("absent", 0) } ELSE { VDict("list", 1) })

\* dados_coletados as _coletar_todos_dados leaves it when the four signal
\* steps hold these values (VAusente: no such step)
DadosDeSinais(d, p, f, i) ==
    LET todos == [ nome \in Sinais |->
                     CASE nome = "drivers_mentais_customizados" -> d
                       [] nome = "provas_visuais_sugeridas" -> p
                       [] nome = "pesquisa_web_massiva" -> f
                       [] nome = "insights_exclusivos" -> i ]
        presentes == { nome \in Sinais : todos[nome] # VAusente }
    IN  [ dados_pipeline       |-> [k |-> "dict", m |-> << >>],
          etapas_salvas        |-> EtapasSalvas(presentes),
          arquivos_encontrados |-> 0,
          comp                 |-> [CompInicial EXCEPT
                                       !.nomes = Filtrar(NomesEtapas, presentes)],
          chaves               |-> [ nome \in presentes |-> todos[nome] ] ]

InitValidador ==
    /\ pc = "v_inicio"
    /\ \E d \in ValoresDeSinal("drivers_mentais_customizados"),
          p \in ValoresDeSinal("provas_visuais_sugeridas"),
          f \in ValoresDeSinal("pesquisa_web_massiva"),
          i \in ValoresDeSinal("insights_exclusivos") :
         dados_coletados = DadosDeSinais(d, p, f, i)
    /\ store = << >>
    /\ ordem = << >>
    /\ dados_pipeline = [k |-> "dict", m |-> << >>]
    /\ force_minimal = FALSE
    /\ arquivos = 0
    /\ validacao = SemValidacao
    /\ relatorio_final = SemRelatorio
    /\ resultado = SemResultado
    /\ erro = ""
    /\ salvos = << >>
    /\ erros = << >>
    /\ escritos = {}
    /\ relogio = Agora
    /\ laco = SemLaco
    /\ session_id = SessionId
    /\ disco = [inicial |-> << >>, atual |-> << >>]
    /\ faults = 0
    /\ extracao = SemExtracao
    /\ geracao = SemGeracao

\* a validator that consumed the signals it read
DadosConsumidosPorValidar(dc) == [dc EXCEPT !.chaves = << >>]

\* lines 167-247: the collected data after a call of the validator; the
\* validator reads dados_coletados and assigns only into its local validacao
DadosAposValidar(dc) == dc

\* one call of _validar_qualidade_dados(dados_coletados)
ValidarIsolado ==
    /\ pc = "v_inicio"
    /\ validacao' = ValidarQualidadeDados(dados_coletados)
    /\ dados_coletados' = DadosAposValidar(dados_coletados)
    /\ pc' = "v_feito"
    /\ UNCHANGED << extracao, geracao, store, disco, relogio, laco, session_id, ordem, dados_pipeline, force_minimal, arquivos,
                    relatorio_final, resultado, erro, salvos,
                    erros, escritos, faults >>

\* a second call of _validar_qualidade_dados on the same object; its
\* assessment is kept in resultado
RevalidarIsolado ==
    /\ pc = "v_feito"
    /\ resultado' = ValidarQualidadeDados(dados_coletados)
    /\ dados_coletados' = DadosAposValidar(dados_coletados)
    /\ pc' = "v_refeito"
    /\ UNCHANGED << extracao, geracao, store, disco, relogio, laco, session_id, ordem, dados_pipeline, force_minimal, arquivos,
                    validacao, relatorio_final, erro, salvos,
                    erros, escritos, faults >>

NextValidador ==
    \/ ValidarIsolado
    \/ RevalidarIsolado

SpecValidador == InitValidador /\ [][NextValidador]_vars

----------------------------------------------------------------------------
(* Properties of the quality validator, checked under SpecValidador.        *)

\* the value under a signal key of the collected data equals the given one
SinalVale(dc, nome, v) == TemChave(dc, nome) /\ dc.chaves[nome] = v

\* every signal is stored well-formed, exactly at its configured minimum
TodosNoMinimo(dc) == \A nome \in Sinais : SinalVale(dc, nome, ValorMinimo(nome))

\* the value is of the type the validator expects for the signal
BemTipado(nome, v) ==
    CASE nome = "drivers_mentais_customizados" ->
             IsDict(v) /\ (HasKey(v) => ~LenRaises(Item(v)))
      [] nome = "provas_visuais_sugeridas" -> IsList(v)
      [] nome = "pesquisa_web_massiva" ->
             IsDict(v) /\ (HasKey(v) => Item(v).k = "num")
      [] nome = "insights_exclusivos" -> IsList(v)

\* every stored signal has the expected shape (only its count varies)
TodosBemFormados(dc) ==
    \A nome \in Sinais :
        TemChave(dc, nome) =>
            dc.chaves[nome] = [ValorMinimo(nome) EXCEPT !.n = dc.chaves[nome].n]

\* the collected data with every wrongly typed signal value left out
SemMalformados(dc) ==
    [dc EXCEPT !.chaves =
        [ nome \in { x \in DOMAIN dc.chaves :
                       x \in Sinais => BemTipado(x, dc.chaves[x]) }
            |-> dc.chaves[nome] ]]

\* the number of the four signals whose recorded count meets its minimum
SinaisAtendidos(val) ==
    (IF val.drivers_mentais_count >= 2 THEN 1 ELSE 0)
    + (IF val.provas_visuais_count >= 1 THEN 1 ELSE 0)
    + (IF val.pesquisa_fontes.k = "num" /\ val.pesquisa_fontes.n >= 3 THEN 1 ELSE 0)
    + (IF val.insights_count >= 5 THEN 1 ELSE 0)

\* C4: with all four signals exactly at their minimum (2 drivers, 1 visual
\* proof, 3 sources, 5 insights) the assessment has score_qualidade = 100 and
\* qualidade_suficiente = true.
C4_MinimosDaoScore100 ==
    (pc = "v_feito" /\ TodosNoMinimo(dados_coletados))
        => /\ validacao.tem_score
           /\ validacao.score_qualidade = 100
           /\ validacao.qualidade_suficiente

\* C5: for every combination of signal counts the score is the number of
\* the four signals meeting their minimum, divided by 4, times 100 (so one
\* signal one below its minimum costs 25, and 2 of 4 give 50).
C5_ScoreSobreQuatro ==
    (pc = "v_feito" /\ TodosBemFormados(dados_coletados))
        => /\ validacao.tem_score
           /\ validacao.score_qualidade * 4 = SinaisAtendidos(validacao) * 100

\* C6: in every returned assessment qualidade_suficiente is true if and only
\* if the fraction of satisfied signal thresholds is at least 0.6.
C6_SuficienteSse60 ==
    pc = "v_feito"
        => (validacao.qualidade_suficiente
              <=> SinaisAtendidos(validacao) * 10 >= 6 * 4)

\* C7: a signal value of the wrong type is treated as that signal being
\* absent: the assessment is the one the validator gives for the same data
\* without the malformed values.
C7_MalformadoComoAusente ==
    pc = "v_feito"
        => validacao = ValidarQualidadeDados(SemMalformados(dados_coletados))

----------------------------------------------------------------------------
(* Properties of consolidar_analise_completa, checked under Spec.           *)

TiposDeRelatorio ==
    { "relatorio_completo", "relatorio_minimo", "relatorio_emergencia",
      "emergencia_critica" }

\* the call has returned
Devolveu == pc = "done"

\* the result of line 115 (the report wrapped with a status), as opposed to
\* the bare fallback report of line 128
Embrulhado == "relatorio_principal" \in DOMAIN resultado

\* the report inside the returned value
RelatorioDevolvido ==
    IF Embrulhado THEN resultado.relatorio_principal ELSE resultado

\* _validar_qualidade_dados has returned an assessment
Validou == validacao # SemValidacao

\* _gerar_relatorio_minimo or _gerar_relatorio_completo has returned a report
Gerou == relatorio_final # SemRelatorio

\* C1: whatever the dados_pipeline value and the stored steps, as long as
\* the collaborators themselves work, the call never raises and what it
\* returns is a report carrying one of the four report types.
C1_NuncaLevanta ==
    faults = 0 =>
        /\ pc # "raised"
        /\ Devolveu => /\ "tipo" \in DOMAIN RelatorioDevolvido
                       /\ RelatorioDevolvido.tipo \in TiposDeRelatorio

\* the except branch of line 123 was entered although no collaborator
\* failed (a stored step replaced the component list by None), and the call
\* returned the fallback report
C1_Testemunha ==
    /\ Devolveu
    /\ faults = 0
    /\ ~Embrulhado
    /\ resultado.tipo = "relatorio_emergencia"
    /\ store["componentes_disponiveis"].dados = VNone

\* C2: whenever the quality assessment is insufficient, the report the call
\* returns has tipo relatorio_minimo (collaborators working).
C2_InsuficienteDaMinimo ==
    (Devolveu /\ faults = 0 /\ Validou /\ ~validacao.qualidade_suficiente)
        => RelatorioDevolvido.tipo = "relatorio_minimo"

\* C3: no exception escapes the call, whichever collaborator call fails.
C3_NenhumaExcecaoEscapa == pc # "raised"

ChavesFixasDoCompleto ==
    { "tipo", "session_id", "timestamp", "qualidade_validada",
      "score_qualidade", "resumo_executivo", "diagnostico_final",
      "metadata_consolidacao" }

EtapasComSucesso == { nome \in DOMAIN store : store[nome].st = "sucesso" }

\* C10: in a minimal report dados_recuperados holds exactly the steps loaded
\* with success status, each with its stored data, and componentes_gerados
\* is the list of exactly those names (collaborators working, so that every
\* listed step is loaded).
C10_RecuperadosExatos ==
    (Gerou /\ relatorio_final.tipo = "relatorio_minimo" /\ faults = 0) =>
        /\ DOMAIN relatorio_final.dados_recuperados = EtapasComSucesso
        /\ \A nome \in EtapasComSucesso :
              relatorio_final.dados_recuperados[nome] = store[nome].dados
        /\ relatorio_final.componentes_gerados.intacto
        /\ Elementos(relatorio_final.componentes_gerados.nomes) = EtapasComSucesso
        /\ Len(relatorio_final.componentes_gerados.nomes)
              = Cardinality(EtapasComSucesso)

\* no step is stored for the session and the pipeline data is an empty dict
SessaoVazia ==
    /\ \A nome \in DOMAIN store : store[nome].st = "ausente"
    /\ dados_pipeline = [k |-> "dict", m |-> << >>]

\* C11: for an empty session the assessment has score 0 and is insufficient,
\* and the report is the minimal one with an empty componentes_gerados and
\* total_arquivos equal to the number of files listed for the session.
C11_SessaoVaziaDaMinimo ==
    (SessaoVazia /\ Gerou /\ faults = 0) =>
        /\ validacao.tem_score
        /\ validacao.score_qualidade = 0
        /\ ~validacao.qualidade_suficiente
        /\ relatorio_final.tipo = "relatorio_minimo"
        /\ relatorio_final.componentes_gerados = CompInicial
        /\ relatorio_final.dados_recuperados = << >>
        /\ relatorio_final.arquivos_intermediarios.total_arquivos = arquivos
        /\ (Devolveu => Embrulhado /\ resultado.relatorio_principal.tipo = "relatorio_minimo")

\* the call on an empty session with files on disk has returned
C11_Testemunha ==
    /\ Devolveu
    /\ Embrulhado
    /\ SessaoVazia
    /\ faults = 0
    /\ arquivos > 0
    /\ resultado.relatorio_principal.arquivos_intermediarios.total_arquivos = arquivos
    /\ resultado.relatorio_principal.componentes_gerados.nomes = << >>

\* C12: the four renderers are independent: every renderer that does not
\* raise on the report has an entry in formatos_disponiveis whatever the
\* others do, and when its file was written the entry is that file's path.
C12_RenderizadoresIndependentes ==
    (Devolveu /\ Embrulhado) =>
        \A f \in Elementos(template_engines) :
            ~RendererRaises(f, resultado.relatorio_principal) =>
                /\ f \in DOMAIN resultado.formatos_disponiveis
                /\ IF NomeArquivo(f, SessionId) \in escritos
                   THEN resultado.formatos_disponiveis[f] = NomeArquivo(f, SessionId)
                   ELSE resultado.formatos_disponiveis[f] = << "Erro ao salvar" >>

\* the markdown renderer raised and the other three formats were written
C12_Testemunha ==
    /\ Devolveu
    /\ Embrulhado
    /\ RendererRaises("markdown", resultado.relatorio_principal)
    /\ DOMAIN resultado.formatos_disponiveis = { "html", "json", "minimal" }
    /\ \A f \in { "html", "json", "minimal" } :
          /\ resultado.formatos_disponiveis[f] = NomeArquivo(f, SessionId)
          /\ NomeArquivo(f, SessionId) \in escritos

\* C13: every entry of formatos_disponiveis belongs to a format whose
\* renderer did not raise and names a file that was actually written.
C13_SoFormatosEscritos ==
    (Devolveu /\ Embrulhado) =>
        \A f \in DOMAIN resultado.formatos_disponiveis :
            /\ ~RendererRaises(f, resultado.relatorio_principal)
            /\ resultado.formatos_disponiveis[f] \in escritos

\* C14: every full or minimal report the call returns carries session_id,
\* timestamp and metadata_consolidacao, whose qualidade_dados is the
\* assessment computed in this call.
C14_MetadadosNoRelatorio ==
    (/\ Devolveu
     /\ Embrulhado
     /\ resultado.relatorio_principal.tipo
            \in { "relatorio_completo", "relatorio_minimo" }) =>
        /\ { "session_id", "timestamp", "metadata_consolidacao" }
              \subseteq DOMAIN resultado.relatorio_principal
        /\ resultado.relatorio_principal.session_id = SessionId
        /\ resultado.relatorio_principal.metadata_consolidacao.qualidade_dados
              = validacao
        /\ validacao = ValidarQualidadeDados(dados_coletados)
        /\ resultado.qualidade = validacao

\* a full report was returned whose metadata holds a sufficient assessment
\* with its counts
C14_Testemunha ==
    /\ Devolveu
    /\ Embrulhado
    /\ resultado.relatorio_principal.tipo = "relatorio_completo"
    /\ resultado.relatorio_principal.metadata_consolidacao.qualidade_dados
          .qualidade_suficiente
    /\ resultado.relatorio_principal.metadata_consolidacao.qualidade_dados
          .insights_count >= quality_thresholds.min_insights

\* C15: a result with status consolidado_com_sucesso never wraps an
\* emergency or critical report.
C15_SucessoSoComRelatorio ==
    (Devolveu /\ Embrulhado) =>
        resultado.relatorio_principal.tipo
            \in { "relatorio_completo", "relatorio_minimo" }

\* C19: when the full builder raised, the outcome is the minimal report
\* built from the same collected data and assessment.
C19_CompletoFalhoDaMinimo ==
    (Gerou /\ "relatorio_completo" \in Elementos(erros)) =>
        /\ relatorio_final.tipo = "relatorio_minimo"
        /\ relatorio_final.dados_recuperados = ComponentesRecuperados(dados_coletados)
        /\ relatorio_final.score_qualidade = validacao.score_qualidade

\* C20: an emergency report is returned only after the minimal builder was
\* tried and failed, and it holds the session id, the error text and the
\* recovery instructions pointing at the session's directory.
C20_CascataUmNivelPorVez ==
    (Devolveu /\ RelatorioDevolvido.tipo = "relatorio_emergencia") =>
        /\ "relatorio_minimo" \in Elementos(erros)
        /\ RelatorioDevolvido.session_id = SessionId
        /\ RelatorioDevolvido.erro_consolidacao # ""
        /\ RelatorioDevolvido.instrucoes_recuperacao = << DiretorioSessao(SessionId) >>

\* C16: whatever the level the call ends at, every file of the session that
\* existed before the call still exists with the content it had, and the
\* stored steps are what they were; the call only adds.
C16_NadaSePerde ==
    \A nome \in DOMAIN disco.inicial :
        /\ nome \in DOMAIN disco.atual
        /\ disco.atual[nome] = disco.inicial[nome]

C23_AvaliacaoNaoPersistida ==
    "validacao_qualidade" \notin Elementos(salvos)

\* C26: the tag metadata_consolidacao.tipo_relatorio agrees with the report
\* it is attached to: 'completo' exactly for a relatorio_completo and
\* 'minimo' exactly for a relatorio_minimo, also after a fallback from the
\* full to the minimal builder.
C26_EtiquetaConcorda ==
    (/\ Devolveu /\ Embrulhado
     /\ resultado.relatorio_principal.tipo
            \in { "relatorio_completo", "relatorio_minimo" }) =>
        LET rel == resultado.relatorio_principal
            etiqueta == rel.metadata_consolidacao.tipo_relatorio
        IN  /\ etiqueta = "completo" <=> rel.tipo = "relatorio_completo"
            /\ etiqueta = "minimo" <=> rel.tipo = "relatorio_minimo"

\* C30: after _coletar_todos_dados (collaborators working) the bookkeeping
\* entries keep their meaning whatever the names of the stored steps:
\* componentes_disponiveis is the list of exactly the names of the steps
\* recovered with success status, and dados_pipeline, etapas_salvas and
\* arquivos_encontrados are the argument, the listed steps and the file
\* listing, never the data of a stored step of that name.
C30_ContabilidadeIntacta ==
    (pc = "validar" /\ faults = 0) =>
        /\ dados_coletados.comp.intacto
        /\ Elementos(dados_coletados.comp.nomes) = EtapasComSucesso
        /\ Len(dados_coletados.comp.nomes) = Cardinality(EtapasComSucesso)
        /\ dados_coletados.dados_pipeline = dados_pipeline
        /\ dados_coletados.etapas_salvas = EtapasSalvas(EtapasListadas(store))
        /\ dados_coletados.arquivos_encontrados = ListarArquivosIntermediarios

\* the stages of consolidar_analise_completa, in the order of its lines
Etapas ==
    << "inicio", "coletar", "validar", "gerar", "integrar", "metadados",
       "formatos", "done" >>

\* the place of a stage in Etapas
Posicao(p) == CHOOSE j \in 1..Len(Etapas) : Etapas[j] = p

\* the files of the first k formats of template_engines, those left out
\* whose renderer raised or whose file could not be written
PrimeirosArquivos(k, rel, falhas) ==
    { NomeArquivo(template_engines[j], SessionId) :
        j \in { h \in 1..k : /\ ~RendererRaises(template_engines[h], rel)
                             /\ template_engines[h] \notin falhas } }

\* C22: one call is a linear pipeline: every step that is not the jump to
\* the except branch moves to the next stage or to the next format of the
\* loop; collection, validation and assembly each happen at their stage
\* only; a file is written only after the metadata block was attached and
\* the report saved to the step store; after k formats of the loop the
\* files are those of the first k formats in the order markdown, html,
\* json, minimal, and no file is ever removed.
C22_PipelineLinear ==
    [][ /\ (pc \in Elementos(Etapas) /\ pc' \in Elementos(Etapas)) =>
              \/ Posicao(pc') = Posicao(pc) + 1
              \/ /\ pc = "formatos" /\ pc' = "formatos"
                 /\ laco'[SessionId].k = laco[SessionId].k + 1
        /\ dados_coletados' # dados_coletados => pc = "coletar"
        /\ validacao' # validacao => (pc = "validar" /\ dados_coletados # SemDados)
        /\ (relatorio_final' # relatorio_final /\ pc # "except") =>
              (pc \in { "gerar", "metadados" } /\ Validou)
        /\ escritos \subseteq escritos'
        /\ escritos' # escritos =>
              /\ pc = "formatos"
              /\ "metadata_consolidacao" \in DOMAIN relatorio_final
              /\ "relatorio_final_consolidado" \in Elementos(salvos)
        /\ pc' = "formatos" =>
              escritos' = PrimeirosArquivos(laco'[SessionId].k, relatorio_final',
                                            laco'[SessionId].falhas)
      ]_vars

\* the loop stopped after two formats: the markdown and html files are
\* there and the json and minimal files are not
C22_Testemunha ==
    /\ pc = "formatos"
    /\ laco[SessionId].k = 2
    /\ escritos = { NomeArquivo("markdown", SessionId), NomeArquivo("html", SessionId) }

----------------------------------------------------------------------------
(* consolidar_analise_final(dados_completos, session_id): the ultra-complete *)
(* report.  dados_coletados holds the argument dados_completos, validacao    *)
(* the result of _validar_integridade_dados, relatorio_final the report      *)
(* being assembled and resultado the returned value.                         *)

\* bound of the model: the longest serialised report, in pages of text
MaxPaginasTexto == 31

\* line 726: session_id: str = None
SessaoNone == "None"

\* lines 845-848
modulos_obrigatorios ==
    << "pesquisa_web", "avatar", "concorrencia", "drivers_mentais",
       "funil_vendas", "metricas", "insights", "plano_acao" >>

\* the required modules other than the web search, whose data also gives
\* the number of sources
ModulosSemWeb == Elementos(modulos_obrigatorios) \ { "pesquisa_web" }

\* line 870
min_fontes_suficientes == 5

\* line 877
min_fontes_recomendadas == 10

\* line 869
min_score_suficiente == 75

\* line 927
palavras_por_pagina == 250

\* line 928
caracteres_por_pagina == 1800

\* lines 900-909: the value under a module's key counts when it is truthy
\* and a dict whose text has no "erro", a non-empty list, or a string of
\* more than 100 characters
ValorDeModuloValido(v) == v \in { "dict", "lista", "str_longa" }

\* the check of lines 900-909 left out: any value stored under the key counts
ModuloPresente(dados, modulo) ==
    IF modulo = "pesquisa_web"
    THEN dados.web.k # "ausente"
    ELSE dados.modulos[modulo] # "ausente"

\* lines 885-913; dados is a dict here
ModuloTemDadosValidos(dados, modulo) ==
    IF modulo = "pesquisa_web"
    THEN ValorDeModuloValido(dados.web.k)
    ELSE ValorDeModuloValido(dados.modulos[modulo])

\* lines 834-841
IntegridadeInicial ==
    [ dados_suficientes |-> FALSE,
      score_qualidade   |-> 0,
      total_fontes      |-> 0,
      modulos_completos |-> 0,
      modulos_faltantes |-> << >>,
      recomendacoes     |-> << >> ]

\* lines 831-883; score_qualidade = (modulos_encontrados / 8) * 100 is kept
\* in tenths of a percent, which is exact (12.5 is 125)
ValidarIntegridadeDados(dados) ==
    IF dados.k # "dict"
    THEN \* line 852: "chave in dados" raises on None, the except branch runs
         IntegridadeInicial
    ELSE LET achados == { m \in Elementos(modulos_obrigatorios) :
                            ModuloTemDadosValidos(dados, m) }
             faltantes == Filtrar(modulos_obrigatorios,
                                  Elementos(modulos_obrigatorios) \ achados)
             score == (Cardinality(achados) * 1000) \div Len(modulos_obrigatorios)
             v1 == [IntegridadeInicial EXCEPT
                       !.modulos_completos = Cardinality(achados),
                       !.modulos_faltantes = faltantes,
                       !.score_qualidade = score]
             \* lines 863-865
             fontes == IF dados.web.k \in { "dict", "dict_erro" }
                       THEN dados.web.n ELSE 0
             suficientes == /\ score >= min_score_suficiente * 10
                            /\ fontes >= min_fontes_suficientes
         IN  IF dados.web.k \in { "lista", "str_longa" }
             THEN \* line 865: web_data.get raises, the except branch runs
                  v1
             ELSE [v1 EXCEPT
                     !.total_fontes = fontes,
                     !.dados_suficientes = suficientes,
                     !.recomendacoes =
                         (IF suficientes THEN << >>
                          ELSE << "Executar coleta adicional de dados" >>)
                         \o (IF fontes < min_fontes_recomendadas
                             THEN << "Ampliar base de fontes de pesquisa" >>
                             ELSE << >>)]

\* lines 1000-1013 and 966: _organizar_dados_por_modulos calls dados.get, and
\* the section builders call .get on projeto_base
MontagemRaises(dados) ==
    \/ dados.k # "dict"
    \/ dados.projeto \notin { "ausente", "dict" }

\* the exception text of a failed assembly
ErroDeMontagem(dados) ==
    IF dados.k # "dict" THEN "organizar_dados" ELSE "projeto_base"

\* lines 755-802: the numbered sections "01_" .. "30_", by their number
SecoesDoRelatorio == 1..30

\* lines 951-960: the sections "31_" .. "40_" added by the expansion
SecoesDaExpansao == 31..40

\* lines 748-752: the keys of the report that are not numbered sections
chaves_de_cabecalho == 5

\* a count of the numbered sections that looks at the first digit "0" only
SecoesComecandoEmZero(secoes) == Cardinality({ n \in secoes : n \div 10 = 0 })

\* line 929: the keys starting with "0", "1" or "2"; the first character of
\* the two-digit key "nn_" is the tens digit of nn
SecoesNumeradas(secoes) == Cardinality({ n \in secoes : n \div 10 \in { 0, 1, 2 } })

MaiorDeTres(a, b, c) ==
    IF a >= b /\ a >= c THEN a ELSE IF b >= c THEN b ELSE c

\* lines 915-943, for a report with the given sections whose serialisation
\* has the given numbers of words and characters; outras is the number of
\* keys that are not numbered sections
CalcularEstatisticasRelatorio(secoes, outras, palavras, caracteres) ==
    LET paginas == MaiorDeTres(palavras \div palavras_por_pagina,
                               caracteres \div caracteres_por_pagina,
                               SecoesNumeradas(secoes))
    IN  [ total_palavras    |-> palavras,
          total_caracteres  |-> caracteres,
          paginas_estimadas |-> paginas,
          secoes_principais |-> Cardinality(secoes) + outras,
          atende_requisito_25_paginas |-> paginas >= 25 ]

\* lines 747-816: the report after ETAPA 4, 5 and 6
RelatorioUltraCompleto(sid, val, palavras, caracteres) ==
    LET e1 == CalcularEstatisticasRelatorio(SecoesDoRelatorio,
                  chaves_de_cabecalho, palavras, caracteres)
        todas == SecoesDoRelatorio \cup SecoesDaExpansao
        \* the recalculation sees the key estatisticas_relatorio as well
        e2 == CalcularEstatisticasRelatorio(todas, chaves_de_cabecalho + 1,
                  palavras, caracteres)
        expandiu == e1.paginas_estimadas < 25
    IN  [ tipo_relatorio |-> "ULTRA_COMPLETO_25_PAGINAS",
          session_id     |-> sid,
          validacao_dados |-> val,
          secoes         |-> IF expandiu THEN todas ELSE SecoesDoRelatorio,
          expandido      |-> expandiu,
          estatisticas_relatorio |-> IF expandiu THEN e2 ELSE e1 ]

\* lines 1078-1097
RelatorioEmergenciaCompleto(sid, err, listados) ==
    [ tipo_relatorio |-> "EMERGENCIA_FINAL_COMPLETA",
      session_id     |-> sid,
      status         |-> "ERRO_CRITICO_NA_CONSOLIDACAO",
      erro_detalhado |-> err,
      arquivos_disponiveis |-> listados ]

\* line 1063: the file of the saved report
ArquivoUltra(sid) == << "relatorio_final_completo", sid, Agora, ".json" >>

\* the values stored under a module's key in the inputs explored
ValoresDeModulo == { "ausente", "dict", "dict_erro", "lista_vazia" }

\* the values stored under pesquisa_web_massiva in the inputs explored: k
\* as for a module, n the length of extracted_content
ValoresDeWeb ==
    { [k |-> "ausente", n |-> 0], [k |-> "lista", n |-> 0],
      [k |-> "dict_erro", n |-> min_fontes_suficientes] }
    \cup { [k |-> "dict", n |-> f] :
             f \in { 0, min_fontes_suficientes - 1, min_fontes_suficientes,
                     min_fontes_recomendadas } }

\* the module data explored: the first j modules hold a dict, the others
\* hold the value r
ModulosDeEntrada ==
    { [ m \in ModulosSemWeb |->
          IF \E idx \in 1..j : modulos_obrigatorios[idx + 1] = m
          THEN "dict" ELSE r ] :
        j \in 0..(Len(modulos_obrigatorios) - 1), r \in ValoresDeModulo \ { "dict" } }

\* the arguments dados_completos explored: None, or a dict
DadosCompletosDeEntrada ==
    { [k |-> "none"] }
    \cup { [k |-> "dict", modulos |-> ms, web |-> w, projeto |-> pj] :
             ms \in ModulosDeEntrada, w \in ValoresDeWeb,
             pj \in { "ausente", "dict", "none" } }

InitFinal ==
    /\ pc = "f_inicio"
    /\ dados_coletados \in DadosCompletosDeEntrada
    /\ session_id \in { SessionId, SessaoNone }
    /\ store = << >>
    /\ ordem = << >>
    /\ dados_pipeline = [k |-> "dict", m |-> << >>]
    /\ force_minimal = FALSE
    /\ arquivos = 0
    /\ validacao = SemValidacao
    /\ relatorio_final = SemRelatorio
    /\ resultado = SemResultado
    /\ erro = ""
    /\ salvos = << >>
    /\ erros = << >>
    /\ escritos = {}
    /\ relogio = Agora
    /\ laco = SemLaco
    /\ disco = [inicial |-> << >>, atual |-> << >>]
    /\ faults = 0
    /\ extracao = SemExtracao
    /\ geracao = SemGeracao

\* line 734 (ETAPA 1)
ValidarIntegridade ==
    /\ pc = "f_inicio"
    /\ validacao' = ValidarIntegridadeDados(dados_coletados)
    /\ pc' = "f_validado"
    /\ UNCHANGED << extracao, geracao, store, disco, relogio, laco, session_id, ordem, dados_pipeline,
                    force_minimal, arquivos, dados_coletados, relatorio_final,
                    resultado, erro, salvos, erros, escritos, faults >>

\* lines 736-816 (ETAPA 2 to 6), and the except branch of lines 827-829
\* when the assembly raises
MontarUltraCompleto ==
    /\ pc = "f_validado"
    /\ \E pp, pcar \in { 1, MaxPaginasTexto } :
         IF MontagemRaises(dados_coletados)
         THEN /\ erro' = ErroDeMontagem(dados_coletados)
              /\ resultado' = RelatorioEmergenciaCompleto(session_id,
                                  ErroDeMontagem(dados_coletados), 0)
              /\ pc' = "f_done"
              /\ UNCHANGED relatorio_final
         ELSE /\ relatorio_final' = RelatorioUltraCompleto(session_id, validacao,
                                        pp * palavras_por_pagina,
                                        pcar * caracteres_por_pagina)
              /\ pc' = "f_salvar"
              /\ UNCHANGED << resultado, erro >>
    /\ UNCHANGED << extracao, geracao, store, disco, relogio, laco, session_id, ordem, dados_pipeline,
                    force_minimal, arquivos, dados_coletados, validacao,
                    salvos, erros, escritos, faults >>

\* lines 818-825 (ETAPA 7 and the return) with _salvar_consolidacao_ultra_segura
\* (lines 1059-1076), and the except branch of lines 827-829.  fDisco: writing
\* the file fails; fErro: salvar_erro raises.
SalvarUltraCompleto ==
    /\ pc = "f_salvar"
    /\ \E fDisco, fErro \in BOOLEAN :
         LET nf == (IF fDisco THEN 1 ELSE 0) + (IF fErro THEN 1 ELSE 0)
             \* line 1063: session_id[:8] raises on None, and the except
             \* branch raises again reading the unbound local filename
             semNome == session_id = SessaoNone
         IN  /\ fErro => (fDisco /\ ~semNome)
             /\ semNome => ~fDisco
             /\ faults + nf <= MaxFaults
             /\ faults' = faults + nf
             /\ IF semNome \/ fErro
                THEN /\ erro' = IF semNome THEN "filename" ELSE "salvar_erro"
                     /\ resultado' = RelatorioEmergenciaCompleto(session_id,
                                         erro', 0)
                     /\ UNCHANGED << erros, disco >>
                ELSE /\ resultado' = relatorio_final
                     /\ erros' = IF fDisco THEN Append(erros, "salvamento_seguro")
                                 ELSE erros
                     /\ disco' = IF fDisco THEN disco
                                 ELSE [disco EXCEPT !.atual =
                                         (ArquivoUltra(session_id) :>
                                            << "json", "ULTRA_COMPLETO_25_PAGINAS" >>) @@ @]
                     /\ UNCHANGED erro
    /\ pc' = "f_done"
    /\ UNCHANGED << extracao, geracao, store, relogio, laco, session_id, ordem, dados_pipeline, force_minimal,
                    arquivos, dados_coletados, validacao, relatorio_final,
                    salvos, escritos >>

NextFinal ==
    \/ ValidarIntegridade
    \/ MontarUltraCompleto
    \/ SalvarUltraCompleto

SpecFinal == InitFinal /\ [][NextFinal]_vars

----------------------------------------------------------------------------
(* Properties of consolidar_analise_final, checked under SpecFinal.          *)

\* consolidar_analise_final has returned
DevolveuFinal == pc = "f_done"

\* C18: every report of type ULTRA_COMPLETO_25_PAGINAS returned by
\* consolidar_analise_final has at least 25 estimated pages and says that it
\* meets the 25-page requirement, whatever the input data and whether or not
\* the expansion step ran.
C18_UltraTem25Paginas ==
    (DevolveuFinal /\ resultado.tipo_relatorio = "ULTRA_COMPLETO_25_PAGINAS") =>
        /\ resultado.estatisticas_relatorio.paginas_estimadas >= 25
        /\ resultado.estatisticas_relatorio.atende_requisito_25_paginas

\* an ultra-complete report returned for data that has nothing at all and
\* whose text fills one page only
C18_Testemunha ==
    /\ DevolveuFinal
    /\ resultado.tipo_relatorio = "ULTRA_COMPLETO_25_PAGINAS"
    /\ validacao.modulos_completos = 0
    /\ resultado.estatisticas_relatorio.total_palavras = palavras_por_pagina
    /\ resultado.estatisticas_relatorio.total_caracteres = caracteres_por_pagina
    /\ resultado.estatisticas_relatorio.paginas_estimadas >= 25


\* the required modules of the argument that hold valid data, read from the
\* argument itself: a dict with no "erro" in its text, a non-empty list or
\* a long string
ModulosValidosDaEntrada(dados) ==
    { m \in ModulosSemWeb : dados.modulos[m] \in { "dict", "lista", "str_longa" } }
    \cup (IF dados.web.k \in { "dict", "lista", "str_longa" }
          THEN { "pesquisa_web" } ELSE {})

C29_FalhaAoSalvarAbsorvida ==
    (/\ DevolveuFinal
     /\ relatorio_final # SemRelatorio
     /\ erro # "salvar_erro")
        => /\ resultado = relatorio_final
           /\ resultado.tipo_relatorio = "ULTRA_COMPLETO_25_PAGINAS"

----------------------------------------------------------------------------
(* Two consolidation runs for different session ids, interleaved: each run   *)
(* is at the loop of _gerar_multiplos_formatos, which renders and writes     *)
(* one format per step; the clock may pass to the next second between two    *)
(* steps.  disco.atual holds the files of                                    *)
(* relatorios_intermediarios/analise_completa.                               *)

\* the session ids of the runs
Sessoes == { "sessao_1", "sessao_1b", "sessao_2" }

\* the second after Agora
Depois == "datetime.now + 1s"

\* the report a run hands to _gerar_multiplos_formatos
RelatorioDaSessao(sid) == [tipo |-> "relatorio_minimo", session_id |-> sid]

\* the session whose report a rendered file shows
SessaoDoConteudo(conteudo) == conteudo[3]

\* line 660: the characters of the file name; the timestamp and the
\* extension are kept as one symbol each
LetrasDoNome(nome) ==
    << "r", "e", "l", "a", "t", "o", "r", "i", "o", "_",
       "f", "i", "n", "a", "l", "_" >> \o nome[2] \o << "_", nome[3], nome[4] >>

\* Python's "sub in s" on strings
Contem(s, sub) ==
    \E j \in 1..(Len(s) - Len(sub) + 1) : SubSeq(s, j, j + Len(sub) - 1) = sub

\* lines 454-477: the files whose name contains session_id
ListarArquivosDe(sid, arqs) ==
    { nome \in DOMAIN arqs : Contem(LetrasDoNome(nome), Letras(sid)) }

InitDuasSessoes ==
    /\ pc = "formatos"
    /\ \E a, b \in Sessoes :
         /\ a # b
         /\ laco = [ sid \in { a, b } |-> LacoInicial ]
    /\ relogio = Agora
    /\ disco = [inicial |-> << >>, atual |-> << >>]
    /\ session_id = SessionId
    /\ store = << >>
    /\ ordem = << >>
    /\ dados_pipeline = [k |-> "dict", m |-> << >>]
    /\ force_minimal = FALSE
    /\ arquivos = 0
    /\ dados_coletados = SemDados
    /\ validacao = SemValidacao
    /\ relatorio_final = SemRelatorio
    /\ resultado = SemResultado
    /\ erro = ""
    /\ salvos = << >>
    /\ erros = << >>
    /\ escritos = {}
    /\ faults = 0
    /\ extracao = SemExtracao
    /\ geracao = SemGeracao

\* lines 484-494 and 646-675: the run of one session renders and writes
\* its next format
RenderizarSessao ==
    /\ \E sid \in DOMAIN laco :
         LET l == laco[sid]
             f == FormatoDaVez(l)
             nome == NomeArquivoEm(f, sid, relogio)
         IN  /\ l.k < Len(template_engines)
             /\ laco' = [laco EXCEPT ![sid] = [l EXCEPT !.k = @ + 1]]
             /\ escritos' = escritos \cup { nome }
             /\ disco' = [disco EXCEPT !.atual =
                   GravarArquivo(@, nome, Renderizado(f, RelatorioDaSessao(sid)))]
    /\ UNCHANGED << extracao, geracao, pc, store, relogio, session_id, ordem, dados_pipeline,
                    force_minimal, arquivos, dados_coletados, validacao,
                    relatorio_final, resultado, erro, salvos, erros, faults >>

\* line 659: datetime.now() reaches the next second
PassarSegundo ==
    /\ relogio = Agora
    /\ relogio' = Depois
    /\ UNCHANGED << extracao, geracao, pc, store, disco, laco, session_id, ordem, dados_pipeline,
                    force_minimal, arquivos, dados_coletados, validacao,
                    relatorio_final, resultado, erro, salvos, erros, escritos,
                    faults >>

NextDuasSessoes ==
    \/ RenderizarSessao
    \/ PassarSegundo

SpecDuasSessoes == InitDuasSessoes /\ [][NextDuasSessoes]_vars

----------------------------------------------------------------------------
(* Properties of two interleaved runs, checked under SpecDuasSessoes.        *)

\* C21: runs for two different session ids never write to the same
\* rendered-file path, whatever the ids and the interleaving: a file that
\* holds the report of one session is never written by the run of another.
C21_CaminhosSeparados ==
    [][ \A nome \in DOMAIN disco.atual :
          SessaoDoConteudo(disco.atual'[nome]) = SessaoDoConteudo(disco.atual[nome])
      ]_vars

\* C27: _listar_arquivos_intermediarios(session_id) returns exactly the
\* files of that session: no file written for another session id, and
\* every file the session's consolidation has written.
C27_ListaSoDaSessao ==
    \A sid \in DOMAIN laco :
        ListarArquivosDe(sid, disco.atual) =
            { nome \in DOMAIN disco.atual :
                SessaoDoConteudo(disco.atual[nome]) = sid }

----------------------------------------------------------------------------
(* PlaywrightSocialExtractor.massive_social_extraction(search_terms), in     *)
(* services/playwright_social_extractor.py.  For each search term the four   *)
(* platform coroutines run concurrently under asyncio.gather(...,            *)
(* return_exceptions=True): they finish in any order, each with a list of    *)
(* items or with an exception, and gather hands the outcomes back by         *)
(* position.  extracao holds search_terms, the index of the term being       *)
(* processed, the outcomes of its tasks and all_content.                     *)

\* bound of the model: the longest search_terms
MaxTermos == 2

\* bound of the model: the longest list a platform task returns
MaxItens == 1

\* lines 322 and 332-337: the platforms, in the order of the tasks
Plataformas == << "instagram", "facebook", "youtube", "tiktok" >>

\* lines 315-318 and 342-349: the key of all_content each platform feeds
ChaveDe(plataforma) ==
    CASE plataforma = "instagram" -> "instagram_posts"
      [] plataforma = "facebook"  -> "facebook_posts"
      [] plataforma = "youtube"   -> "youtube_videos"
      [] plataforma = "tiktok"    -> "tiktok_content"

\* lines 366-369: the key of extraction_summary holding a platform's count
ContadorDe(plataforma) ==
    CASE plataforma = "instagram" -> "instagram_count"
      [] plataforma = "facebook"  -> "facebook_count"
      [] plataforma = "youtube"   -> "youtube_count"
      [] plataforma = "tiktok"    -> "tiktok_count"

\* a task that has not finished
Pendente == [k |-> "pendente", itens |-> << >>]

\* a task that ended in an exception, which gather returns as its result
Excecao == [k |-> "excecao", itens |-> << >>]

\* the n items a platform task extracts for a term
ItensDe(plataforma, termo, n) == [i \in 1..n |-> << plataforma, termo, i >>]

\* the outcomes of a platform task for a term: an exception, an empty list
\* or a list of MaxItens items
DesfechosDe(plataforma, termo) ==
    { Excecao }
    \cup { [k |-> "lista", itens |-> ItensDe(plataforma, termo, n)] :
             n \in { 0, MaxItens } }

\* lines 314-324
ConteudoInicial == [c \in { ChaveDe(Plataformas[i]) : i \in 1..Len(Plataformas) }
                      |-> << >>]

\* gather without return_exceptions: the first exception propagates to the
\* except branch of lines 354-356 and the term adds nothing
ConteudoSeGatherPropaga(all_content, results) ==
    IF \E i \in 1..Len(Plataformas) : results[Plataformas[i]].k # "lista"
    THEN all_content
    ELSE [c \in DOMAIN all_content |->
            LET p == CHOOSE q \in DOMAIN results : ChaveDe(q) = c
            IN  all_content[c] \o results[p].itens]

\* lines 339-349: each result that is a list extends its platform's list
ConteudoAposTermo(all_content, results) ==
    [c \in DOMAIN all_content |->
        LET p == CHOOSE q \in DOMAIN results : ChaveDe(q) = c
        IN  IF results[p].k = "lista"
            THEN all_content[c] \o results[p].itens
            ELSE all_content[c]]

\* lines 319-323
ResumoInicial(total_terms) ==
    [ total_terms |-> total_terms, platforms_extracted |-> Plataformas ]

\* lines 358-370
ResumoFinal(total_terms, all_content) ==
    [ total_terms |-> total_terms,
      platforms_extracted |-> Plataformas,
      total_content_extracted |->
          Len(all_content["instagram_posts"]) + Len(all_content["facebook_posts"])
          + Len(all_content["youtube_videos"]) + Len(all_content["tiktok_content"]),
      instagram_count |-> Len(all_content["instagram_posts"]),
      facebook_count |-> Len(all_content["facebook_posts"]),
      youtube_count |-> Len(all_content["youtube_videos"]),
      tiktok_count |-> Len(all_content["tiktok_content"]) ]

\* no task has been created yet
SemResultados == [i \in {} |-> Pendente]

InitExtracao ==
    /\ pc = "x_laco"
    /\ \E n \in 0..MaxTermos :
         extracao = [ search_terms |-> [t \in 1..n |-> t],
                      termo |-> 1,
                      results |-> SemResultados,
                      all_content |-> ConteudoInicial,
                      extraction_summary |-> ResumoInicial(n) ]
    /\ store = << >>
    /\ ordem = << >>
    /\ dados_pipeline = [k |-> "dict", m |-> << >>]
    /\ force_minimal = FALSE
    /\ session_id = SessionId
    /\ arquivos = 0
    /\ dados_coletados = SemDados
    /\ validacao = SemValidacao
    /\ relatorio_final = SemRelatorio
    /\ resultado = SemResultado
    /\ erro = ""
    /\ salvos = << >>
    /\ erros = << >>
    /\ escritos = {}
    /\ relogio = Agora
    /\ laco = SemLaco
    /\ disco = [inicial |-> << >>, atual |-> << >>]
    /\ faults = 0
    /\ geracao = SemGeracao

\* lines 326 and 331-337: the next term's four coroutines are created and
\* handed to gather
CriarTarefas ==
    /\ pc = "x_laco"
    /\ extracao.termo <= Len(extracao.search_terms)
    /\ extracao' = [extracao EXCEPT
                      !.results = [i \in { Plataformas[j] : j \in 1..Len(Plataformas) }
                                     |-> Pendente]]
    /\ pc' = "x_gather"
    /\ UNCHANGED << geracao, store, disco, relogio, laco, session_id, ordem,
                    dados_pipeline, force_minimal, arquivos, dados_coletados,
                    validacao, relatorio_final, resultado, erro, salvos, erros,
                    escritos, faults >>

\* line 339: one of the pending tasks finishes, with a list or an exception
ConcluirTarefa ==
    /\ pc = "x_gather"
    /\ \E p \in DOMAIN extracao.results :
         /\ extracao.results[p] = Pendente
         /\ \E d \in DesfechosDe(p, extracao.search_terms[extracao.termo]) :
              extracao' = [extracao EXCEPT !.results[p] = d]
    /\ UNCHANGED << geracao, pc, store, disco, relogio, laco, session_id, ordem,
                    dados_pipeline, force_minimal, arquivos, dados_coletados,
                    validacao, relatorio_final, resultado, erro, salvos, erros,
                    escritos, faults >>

\* lines 339-352: gather returns when the four tasks have finished, the
\* results are processed and the loop goes to the next term
ProcessarResultados ==
    /\ pc = "x_gather"
    /\ \A p \in DOMAIN extracao.results : extracao.results[p] # Pendente
    /\ extracao' = [extracao EXCEPT
                      !.all_content = ConteudoAposTermo(@, extracao.results),
                      !.termo = @ + 1]
    /\ pc' = "x_laco"
    /\ UNCHANGED << geracao, store, disco, relogio, laco, session_id, ordem,
                    dados_pipeline, force_minimal, arquivos, dados_coletados,
                    validacao, relatorio_final, resultado, erro, salvos, erros,
                    escritos, faults >>

\* lines 358-376: the loop is over, the counts are written and all_content
\* is returned
EstatisticasFinais ==
    /\ pc = "x_laco"
    /\ extracao.termo > Len(extracao.search_terms)
    /\ extracao' = [extracao EXCEPT
                      !.extraction_summary =
                          ResumoFinal(Len(extracao.search_terms), extracao.all_content)]
    /\ pc' = "x_fim"
    /\ UNCHANGED << geracao, store, disco, relogio, laco, session_id, ordem,
                    dados_pipeline, force_minimal, arquivos, dados_coletados,
                    validacao, relatorio_final, resultado, erro, salvos, erros,
                    escritos, faults >>

NextExtracao ==
    \/ CriarTarefas
    \/ ConcluirTarefa
    \/ ProcessarResultados
    \/ EstatisticasFinais

SpecExtracao == InitExtracao /\ [][NextExtracao]_vars

----------------------------------------------------------------------------
(* Properties of massive_social_extraction, checked under SpecExtracao.      *)

\* the items of all_content[chave] that were extracted for the term
ItensDoTermo(all_content, chave, termo) ==
    { i \in 1..Len(all_content[chave]) : all_content[chave][i][2] = termo }

\* C25: the four tasks of a term are joined so that a task ending in an
\* exception is discarded without propagating: when the join returns, every
\* platform whose task returned a list has its items appended, a platform
\* whose task raised adds nothing, the loop goes on to the next term, no
\* error is raised, and in the returned result each per-platform count is
\* the length of its list and total_content_extracted is their sum.
C25_ExcecoesDescartadas ==
    [][ /\ (pc = "x_gather" /\ pc' # "x_gather") =>
             /\ pc' = "x_laco"
             /\ extracao'.termo = extracao.termo + 1
             /\ \A i \in 1..Len(Plataformas) :
                  LET p == Plataformas[i]
                      antes == extracao.all_content[ChaveDe(p)]
                      depois == extracao'.all_content[ChaveDe(p)]
                  IN  IF extracao.results[p].k = "lista"
                      THEN depois = antes \o extracao.results[p].itens
                      ELSE depois = antes
        /\ pc' = "x_fim" =>
             /\ extracao'.termo = Len(extracao'.search_terms) + 1
             /\ \A i \in 1..Len(Plataformas) :
                  extracao'.extraction_summary[ContadorDe(Plataformas[i])] =
                      Len(extracao'.all_content[ChaveDe(Plataformas[i])])
             /\ extracao'.extraction_summary.total_content_extracted =
                    extracao'.extraction_summary.instagram_count
                    + extracao'.extraction_summary.facebook_count
                    + extracao'.extraction_summary.youtube_count
                    + extracao'.extraction_summary.tiktok_count
        /\ erro' = ""
      ]_vars

\* the first of two terms has been joined: its instagram task ended in an
\* exception, its facebook task returned items that are in all_content, and
\* the loop is about to process the second term
C25_Testemunha ==
    /\ pc = "x_laco"
    /\ Len(extracao.search_terms) = 2
    /\ extracao.termo = 2
    /\ extracao.results # SemResultados
    /\ extracao.results["instagram"] = Excecao
    /\ extracao.results["facebook"].k = "lista"
    /\ extracao.all_content["instagram_posts"] = << >>
    /\ extracao.all_content["facebook_posts"] = ItensDe("facebook", 1, MaxItens)

----------------------------------------------------------------------------
(* ComprehensiveReportGeneratorV3.generate_comprehensive_report(session_id,  *)
(* analysis_data, output_format), in                                         *)
(* services/comprehensive_report_generator_v3.py.  geracao holds the         *)
(* arguments, report_data (the sections generated so far, statistics,        *)
(* html_content, file_path), the HTML file on disk and the returned value.   *)
(* An HTML text is modelled by the statistics its table shows and by its     *)
(* size in KB.                                                               *)

\* line 26
min_pages == 25

\* line 27
target_size_kb == 500

\* lines 30-43
report_sections ==
    << "executive_summary", "market_analysis", "competitive_landscape",
       "user_behavior_analysis", "content_performance",
       "viral_potential_analysis", "predictive_insights",
       "revenue_projections", "risk_assessment",
       "strategic_recommendations", "implementation_roadmap", "appendices" >>

\* lines 188, 265, 338, 430, 559, 729, 899, 1168, 1398, 1634, 1985, 2214:
\* 'word_count' of each section, in the order of report_sections
word_count == << 350, 650, 550, 700, 800, 950, 1100, 1200, 1150, 1300, 1400, 1200 >>

\* lines 189, 266, 339, 431, 560, 730, 900, 1169, 1399, 1635, 1986, 2215:
\* 'page_estimate' of each section, in tenths of a page (2.5 is 25)
page_estimate == << 25, 45, 35, 48, 52, 60, 70, 75, 72, 80, 85, 78 >>

\* lines 75-80
EstatisticasIniciais ==
    [ total_pages |-> 0, total_words |-> 0, total_size_kb |-> 0 ]

\* the sizes explored for the generated HTML text, in KB: the size it has
\* for a small analysis_data, and one above target_size_kb
TamanhosDeHtmlKb == { 99, target_size_kb + 1 }

\* sum of the first k entries of a sequence of numbers
RECURSIVE SomaDosPrimeiros(_, _)
SomaDosPrimeiros(seq, k) ==
    IF k = 0 THEN 0 ELSE seq[k] + SomaDosPrimeiros(seq, k - 1)

\* no HTML text has been generated, no file written
SemHtml == [ha |-> FALSE]

\* lines 2252-2414: the HTML text; its table of lines 2377-2403 shows
\* report_data['statistics'] as they are when the text is generated
GenerateHtmlReport(statistics, kb) ==
    [ ha |-> TRUE, stats |-> statistics, kb |-> kb ]

\* lines 2438-2456; secoes is the number of sections in report_data
CalculateReportStatistics(secoes, html) ==
    LET total_words == SomaDosPrimeiros(word_count, secoes)
        total_pages == SomaDosPrimeiros(page_estimate, secoes) \div 10
        total_size_kb == IF html.ha THEN html.kb
                         ELSE (total_words * 6) \div 1024
    IN  [ total_pages |-> IF total_pages > min_pages THEN total_pages ELSE min_pages,
          total_words |-> total_words,
          total_size_kb |-> IF total_size_kb > target_size_kb
                            THEN total_size_kb ELSE target_size_kb ]

\* line 91: output_format.lower() == "html"
FormatoEhHtml(output_format) == output_format \in { "html", "HTML" }

\* lines 154 and 201: the first section takes len(data.get('content_data',
\* [])) and the second len(data.get('search_results', [])); the call raises
\* when analysis_data is not a dict or the value under the key is None.
\* The other sections do not read analysis_data.
SecaoRaises(analysis_data, secao) ==
    CASE secao = "executive_summary" ->
             \/ analysis_data.k # "dict"
             \/ analysis_data.content_data = "None"
      [] secao = "market_analysis" -> analysis_data.search_results = "None"
      [] OTHER -> FALSE

\* the arguments analysis_data explored: None, or a dict whose
\* content_data and search_results are absent, a list or None
DadosDeAnalise ==
    { [k |-> "None"] }
    \cup { [k |-> "dict", content_data |-> c, search_results |-> r] :
             c, r \in { "ausente", "lista", "None" } }

\* lines 115-122
RetornoDeFalha == [ success |-> FALSE, report_data |-> "None" ]

\* lines 108-113
RetornoDeSucesso(file_path, statistics) ==
    [ success |-> TRUE, file_path |-> file_path, statistics |-> statistics ]

InitGeracao ==
    /\ pc = "g_secoes"
    /\ \E dados \in DadosDeAnalise, formato \in { "html", "HTML", "pdf" } :
         geracao = [ analysis_data |-> dados,
                     output_format |-> formato,
                     secoes |-> 0,
                     statistics |-> EstatisticasIniciais,
                     html_content |-> SemHtml,
                     file_path |-> "None",
                     arquivo |-> SemHtml,
                     retorno |-> SemResultado ]
    /\ store = << >>
    /\ ordem = << >>
    /\ dados_pipeline = [k |-> "dict", m |-> << >>]
    /\ force_minimal = FALSE
    /\ session_id = SessionId
    /\ arquivos = 0
    /\ dados_coletados = SemDados
    /\ validacao = SemValidacao
    /\ relatorio_final = SemRelatorio
    /\ resultado = SemResultado
    /\ erro = ""
    /\ salvos = << >>
    /\ erros = << >>
    /\ escritos = {}
    /\ relogio = Agora
    /\ laco = SemLaco
    /\ disco = [inicial |-> << >>, atual |-> << >>]
    /\ faults = 0
    /\ extracao = SemExtracao

\* lines 84-88: one more section is generated, or the generator raises and
\* the except branch of lines 115-122 returns the failure
GerarSecao ==
    /\ pc = "g_secoes"
    /\ geracao.secoes < Len(report_sections)
    /\ IF SecaoRaises(geracao.analysis_data, report_sections[geracao.secoes + 1])
       THEN /\ geracao' = [geracao EXCEPT !.retorno = RetornoDeFalha]
            /\ erros' = Append(erros, "comprehensive_report_generation")
            /\ pc' = "g_fim"
       ELSE /\ geracao' = [geracao EXCEPT !.secoes = @ + 1]
            /\ UNCHANGED << erros, pc >>
    /\ UNCHANGED << extracao, store, disco, relogio, laco, session_id, ordem,
                    dados_pipeline, force_minimal, arquivos, dados_coletados,
                    validacao, relatorio_final, resultado, erro, salvos,
                    escritos, faults >>

\* lines 90-93: the HTML text is generated when the format is html
GerarHtml ==
    /\ pc = "g_secoes"
    /\ geracao.secoes = Len(report_sections)
    /\ IF FormatoEhHtml(geracao.output_format)
       THEN /\ \E kb \in TamanhosDeHtmlKb :
                 geracao' = [geracao EXCEPT
                               !.html_content = GenerateHtmlReport(geracao.statistics, kb)]
            /\ pc' = "g_salvar"
       ELSE /\ pc' = "g_estatisticas"
            /\ UNCHANGED geracao
    /\ UNCHANGED << extracao, store, disco, relogio, laco, session_id, ordem,
                    dados_pipeline, force_minimal, arquivos, dados_coletados,
                    validacao, relatorio_final, resultado, erro, salvos, erros,
                    escritos, faults >>

\* line 93 with _save_html_report (lines 2416-2436): the text is written to
\* the file, or the write fails and file_path is ""
SalvarHtml ==
    /\ pc = "g_salvar"
    /\ \E fDisco \in BOOLEAN :
         /\ fDisco => faults < MaxFaults
         /\ faults' = faults + (IF fDisco THEN 1 ELSE 0)
         /\ geracao' = IF fDisco
                       THEN [geracao EXCEPT !.file_path = ""]
                       ELSE [geracao EXCEPT !.file_path = "comprehensive_report",
                                            !.arquivo = geracao.html_content]
    /\ pc' = "g_estatisticas"
    /\ UNCHANGED << extracao, store, disco, relogio, laco, session_id, ordem,
                    dados_pipeline, force_minimal, arquivos, dados_coletados,
                    validacao, relatorio_final, resultado, erro, salvos, erros,
                    escritos >>

\* lines 96-97
CalcularEstatisticas ==
    /\ pc = "g_estatisticas"
    /\ geracao' = [geracao EXCEPT
                     !.statistics = CalculateReportStatistics(geracao.secoes,
                                                              geracao.html_content)]
    /\ pc' = "g_etapa"
    /\ UNCHANGED << extracao, store, disco, relogio, laco, session_id, ordem,
                    dados_pipeline, force_minimal, arquivos, dados_coletados,
                    validacao, relatorio_final, resultado, erro, salvos, erros,
                    escritos, faults >>

\* lines 100-113, and the except branch of lines 115-122 when salvar_etapa
\* raises
RetornarGeracao ==
    /\ pc = "g_etapa"
    /\ \E fEtapa \in BOOLEAN :
         /\ fEtapa => faults < MaxFaults
         /\ faults' = faults + (IF fEtapa THEN 1 ELSE 0)
         /\ IF fEtapa
            THEN /\ geracao' = [geracao EXCEPT !.retorno = RetornoDeFalha]
                 /\ erros' = Append(erros, "comprehensive_report_generation")
                 /\ UNCHANGED salvos
            ELSE /\ geracao' = [geracao EXCEPT
                                  !.retorno = RetornoDeSucesso(geracao.file_path,
                                                               geracao.statistics)]
                 /\ salvos' = Append(salvos, "comprehensive_report_generated")
                 /\ UNCHANGED erros
    /\ pc' = "g_fim"
    /\ UNCHANGED << extracao, store, disco, relogio, laco, session_id, ordem,
                    dados_pipeline, force_minimal, arquivos, dados_coletados,
                    validacao, relatorio_final, resultado, erro, escritos >>

NextGeracao ==
    \/ GerarSecao
    \/ GerarHtml
    \/ SalvarHtml
    \/ CalcularEstatisticas
    \/ RetornarGeracao

SpecGeracao == InitGeracao /\ [][NextGeracao]_vars

----------------------------------------------------------------------------
(* Properties of generate_comprehensive_report, checked under SpecGeracao.   *)

\* C28: with output_format 'html', the statistics shown in the saved HTML
\* file (total pages, total words, size) are the statistics returned in the
\* result's statistics field, and these have total_pages >= 25 and
\* total_size_kb >= 500.
C28_HtmlMostraAsEstatisticas ==
    (/\ pc = "g_fim"
     /\ geracao.retorno.success
     /\ FormatoEhHtml(geracao.output_format)
     /\ geracao.arquivo.ha)
        => /\ geracao.arquivo.stats = geracao.retorno.statistics
           /\ geracao.retorno.statistics.total_pages >= min_pages
           /\ geracao.retorno.statistics.total_size_kb >= target_size_kb

====
